---------------------------- MODULE Spec2Model ----------------------------
(***************************************************************************)
(* Model of the data-processing operator set of the client library         *)
(* (DataProcessor.findDuplicates / categorizeData / evaluateRule /         *)
(* filterData / aggregateData).                                            *)
(*                                                                         *)
(* JavaScript values are modelled as tagged records, strings as sequences  *)
(* of one-character strings, objects as insertion-ordered sequences of     *)
(* key/value entries, numbers as rationals n/d (d = 0 stands for NaN).     *)
(***************************************************************************)
EXTENDS Integers, Sequences, FiniteSets

(***************************************************************************)
(* Bounds of the model                                                     *)
(***************************************************************************)
\* longest input array
MaxLen == 3

\* longest list of categorization rules
MaxRules == 2

\* longest list of aggregation specs
MaxAggs == 2

\* longest array loaded by a workflow or passed to processData
MaxRows == 2

\* longest list of operations of a pipeline
MaxOps == 2

(***************************************************************************)
(* JavaScript values                                                       *)
(***************************************************************************)
Undefined == [t |-> "undefined", n |-> 0, d |-> 1, s |-> <<>>]

Null == [t |-> "null", n |-> 0, d |-> 1, s |-> <<>>]

NaN == [t |-> "number", n |-> 0, d |-> 0, s |-> <<>>]

Num(k) == [t |-> "number", n |-> k, d |-> 1, s |-> <<>>]

Str(cs) == [t |-> "string", n |-> 0, d |-> 1, s |-> cs]

Bool(b) == [t |-> "boolean", n |-> (IF b THEN 1 ELSE 0), d |-> 1, s |-> <<>>]

Abs(x) == IF x < 0 THEN -x ELSE x

RECURSIVE GCD(_, _)
GCD(a, b) == IF b = 0 THEN a ELSE GCD(b, a % b)

\* the number p/q (q # 0) in lowest terms with a positive denominator
Rat(p, q) ==
  LET Reduced(g) ==
        [t |-> "number", n |-> (IF q < 0 THEN -1 ELSE 1) * (p \div g),
         d |-> Abs(q) \div g, s |-> <<>>]
  IN Reduced(GCD(Abs(p), Abs(q)))

IsNaN(v) == v.t = "number" /\ v.d = 0

\* the === operator
StrictEquals(a, b) == a.t = b.t /\ ~IsNaN(a) /\ ~IsNaN(b) /\ a = b

\* number + number (NaN is absorbing)
NumAdd(a, b) ==
  IF a.d = 0 \/ b.d = 0 THEN NaN ELSE Rat(a.n * b.d + b.n * a.d, a.d * b.d)

\* number / number; x/0 is +-Infinity in JavaScript, 0/0 is NaN: the model
\* never divides by zero (avg guards values.length > 0)
NumDiv(a, b) ==
  IF a.d = 0 \/ b.d = 0 \/ b.n = 0 THEN NaN ELSE Rat(a.n * b.d, a.d * b.n)

NumLessEq(a, b) == a.d # 0 /\ b.d # 0 /\ a.n * b.d <= b.n * a.d

(***************************************************************************)
(* Strings: sequences of characters                                        *)
(***************************************************************************)
Digits == <<"0", "1", "2", "3", "4", "5", "6", "7", "8", "9">>

IsDigit(c) == \E i \in 1..10 : Digits[i] = c

\* white space: of the characters of the model (printable ASCII), the space
IsWhiteSpace(c) == c = " "

StartsWith(str, prefix) ==
  Len(str) >= Len(prefix) /\ SubSeq(str, 1, Len(prefix)) = prefix

\* String.prototype.slice(k) for 0 <= k
Slice(str, k) == SubSeq(str, k + 1, Len(str))

Includes(str, c) == \E i \in 1..Len(str) : str[i] = c

RECURSIVE TrimStart(_)
TrimStart(str) ==
  IF str # <<>> /\ IsWhiteSpace(Head(str)) THEN TrimStart(Tail(str)) ELSE str

RECURSIVE TrimEnd(_)
TrimEnd(str) ==
  IF str # <<>> /\ IsWhiteSpace(str[Len(str)])
  THEN TrimEnd(SubSeq(str, 1, Len(str) - 1)) ELSE str

\* length of the longest prefix of str made of digits
RECURSIVE DigitRun(_)
DigitRun(str) ==
  IF str # <<>> /\ IsDigit(Head(str)) THEN 1 + DigitRun(Tail(str)) ELSE 0

RECURSIVE DigitsToInt(_)
DigitsToInt(str) ==
  LET DigitValue(c) == (CHOOSE i \in 1..10 : Digits[i] = c) - 1
  IN
  IF str = <<>> THEN 0
  ELSE 10 * DigitsToInt(SubSeq(str, 1, Len(str) - 1)) + DigitValue(str[Len(str)])

RECURSIVE Pow10(_)
Pow10(k) == IF k = 0 THEN 1 ELSE 10 * Pow10(k - 1)

\* the longest prefix of str that is an unsigned decimal literal, as
\* [len, val]; len = 0 when there is none
UnsignedPrefix(str) ==
  LET \* the exponent part  (e|E) [+-] digits  at the start of txt (len 0: none);
      \* skip is the number of characters before its digits, ne the number of digits
      ExponentOf(txt) ==
        LET Exponent(skip, ne) ==
              [len |-> IF ne = 0 THEN 0 ELSE skip + ne,
               neg |-> skip = 2 /\ txt[2] = "-",
               val |-> DigitsToInt(SubSeq(txt, skip + 1, skip + ne))]
            AfterMark(skip) ==
              Exponent(skip, IF txt # <<>> /\ txt[1] \in {"e", "E"}
                             THEN DigitRun(Slice(txt, skip)) ELSE 0)
        IN AfterMark(IF Len(txt) >= 2 /\ txt[1] \in {"e", "E"} /\ txt[2] \in {"-", "+"}
                     THEN 2 ELSE 1)
      \* the mantissa  digits [. digits]  or  . digits  at the start of txt, as the
      \* fraction num/den and the number of characters it takes (0: none); ni is
      \* the number of integer digits, nf the number of fraction digits
      MantissaOf(txt) ==
        LET Mantissa(ni, nf) ==
              [len |-> IF ni = 0 /\ nf = 0 THEN 0
                       ELSE ni + (IF Len(txt) > ni /\ txt[ni + 1] = "." THEN 1 + nf ELSE 0),
               num |-> DigitsToInt(SubSeq(txt, 1, ni)) * Pow10(nf)
                         + DigitsToInt(SubSeq(txt, ni + 2, ni + 1 + nf)),
               den |-> Pow10(nf)]
            AfterInteger(ni) ==
              Mantissa(ni, IF Len(txt) > ni /\ txt[ni + 1] = "."
                           THEN DigitRun(Slice(txt, ni + 1)) ELSE 0)
        IN AfterInteger(DigitRun(txt))
      Literal(m, e) ==
        IF m.len = 0 THEN [len |-> 0, val |-> NaN]
        ELSE [len |-> m.len + e.len,
              val |-> IF e.neg THEN Rat(m.num, m.den * Pow10(e.val))
                      ELSE Rat(m.num * Pow10(e.val), m.den)]
      AfterMantissa(m) == Literal(m, ExponentOf(Slice(str, m.len)))
  IN AfterMantissa(MantissaOf(str))

\* The longest prefix of str that is a decimal literal
\*   [+-] digits [. digits] [(e|E) [+-] digits]     (or [+-] . digits ...)
\* as [len, val]; len = 0 when there is none.  The literal Infinity, which is
\* no rational, is not among the strings of the model.
DecimalPrefix(str) ==
  LET Signed(u) ==
        IF u.len = 0 THEN u
        ELSE [len |-> u.len + 1,
              val |-> IF Head(str) = "-" THEN Rat(-u.val.n, u.val.d) ELSE u.val]
  IN IF str # <<>> /\ Head(str) \in {"-", "+"}
     THEN Signed(UnsignedPrefix(Tail(str)))
     ELSE UnsignedPrefix(str)

\* the global parseFloat: leading white space skipped, longest numeric prefix
ParseFloat(str) == DecimalPrefix(TrimStart(str)).val

\* Number(string): the whole trimmed string must be a decimal literal (the
\* hexadecimal, octal and binary forms 0x.., 0o.., 0b.. are not among the
\* strings of the model)
StringToNumber(str) ==
  LET Whole(t, p) ==
        IF t = <<>> THEN Num(0)
        ELSE IF p.len = Len(t) THEN p.val ELSE NaN
      Trimmed(t) == Whole(t, DecimalPrefix(t))
  IN Trimmed(TrimEnd(TrimStart(str)))

ToNumber(v) ==
  CASE v.t = "undefined" -> NaN
    [] v.t = "null" -> Num(0)
    [] v.t = "boolean" -> Num(v.n)
    [] v.t = "number" -> v
    [] v.t = "string" -> StringToNumber(v.s)

RECURSIVE NatToString(_)
NatToString(k) ==
  IF k < 10 THEN <<Digits[k + 1]>>
  ELSE NatToString(k \div 10) \o <<Digits[(k % 10) + 1]>>

\* the first `places` digits of the decimal expansion of r/q (0 <= r < q),
\* stopping when the expansion terminates
RECURSIVE FractionDigits(_, _, _)
FractionDigits(r, q, places) ==
  IF r = 0 \/ places = 0 THEN <<>>
  ELSE <<Digits[((10 * r) \div q) + 1]>> \o FractionDigits((10 * r) % q, q, places - 1)

\* Number::toString.  Integers and terminating decimals are exact; any other
\* fraction is cut after 16 places (JavaScript prints the shortest digits
\* that round-trip, about 17 significant ones).
NumberToString(v) ==
  IF v.d = 0 THEN <<"N", "a", "N">>
  ELSE LET a == Abs(v.n)
           ip == NatToString(a \div v.d)
           fr == FractionDigits(a % v.d, v.d, 16)
       IN (IF v.n < 0 THEN <<"-">> ELSE <<>>) \o ip
            \o (IF fr = <<>> THEN <<>> ELSE <<".">> \o fr)

\* the abstract operation ToString, as applied to property keys, to the
\* operands of a string concatenation and by RegExp.prototype.test
JSToString(v) ==
  CASE v.t = "undefined" -> <<"u", "n", "d", "e", "f", "i", "n", "e", "d">>
    [] v.t = "null" -> <<"n", "u", "l", "l">>
    [] v.t = "boolean" -> (IF v.n = 1 THEN <<"t", "r", "u", "e">>
                                      ELSE <<"f", "a", "l", "s", "e">>)
    [] v.t = "number" -> NumberToString(v)
    [] v.t = "string" -> v.s

\* case folding of the 'i' flag
Fold(c) ==
  LET LowerCase == <<"a", "b", "c", "d", "e", "f", "g", "h", "i", "j", "k", "l", "m",
                     "n", "o", "p", "q", "r", "s", "t", "u", "v", "w", "x", "y", "z">>
      UpperCase == <<"A", "B", "C", "D", "E", "F", "G", "H", "I", "J", "K", "L", "M",
                     "N", "O", "P", "Q", "R", "S", "T", "U", "V", "W", "X", "Y", "Z">>
  IN
  IF \E i \in 1..26 : UpperCase[i] = c
  THEN LowerCase[CHOOSE i \in 1..26 : UpperCase[i] = c]
  ELSE c

\* expectedValue.replace(/\*/g, '.*')
RECURSIVE ReplaceStars(_)
ReplaceStars(str) ==
  IF str = <<>> THEN <<>>
  ELSE (IF Head(str) = "*" THEN <<".", "*">> ELSE <<Head(str)>>)
         \o ReplaceStars(Tail(str))

\* The regular expression re matches a prefix of str.  re is read as a
\* sequence of atoms: ".*" (any sequence), "." (any character), or a literal
\* compared case-insensitively under the 'i' flag.  The other metacharacters of RegExp
\* ( \ ^ $ + ? ( ) [ ] { } | and a '*' after a literal ) are not in the
\* patterns of the model.
RECURSIVE MatchHere(_, _, _)
MatchHere(re, str, ignoreCase) ==
  IF re = <<>> THEN TRUE
  ELSE IF Len(re) >= 2 /\ re[1] = "." /\ re[2] = "*"
  THEN \E k \in 0..Len(str) : MatchHere(Slice(re, 2), Slice(str, k), ignoreCase)
  ELSE /\ str # <<>>
       /\ \/ re[1] = "."
          \/ re[1] = str[1]
          \/ ignoreCase /\ Fold(re[1]) = Fold(str[1])
       /\ MatchHere(Tail(re), Tail(str), ignoreCase)

\* new RegExp(re, flags).test(str): an unanchored search
RegExpTest(re, str, ignoreCase) ==
  \E k \in 0..Len(str) : MatchHere(re, Slice(str, k), ignoreCase)

(***************************************************************************)
(* Objects: insertion-ordered sequences of entries [k |-> key, v |-> value] *)
(***************************************************************************)
HasOwn(obj, key) == \E i \in 1..Len(obj) : obj[i].k = key

\* obj[key] for a record of the data (own properties only: the field names of
\* the model are not names of Object.prototype)
Get(obj, key) ==
  IF HasOwn(obj, key)
  THEN obj[CHOOSE i \in 1..Len(obj) : obj[i].k = key].v
  ELSE Undefined

\* obj[key] = val : an existing key keeps its position
Put(obj, key, val) ==
  IF HasOwn(obj, key)
  THEN [i \in 1..Len(obj) |-> IF obj[i].k = key THEN [k |-> key, v |-> val] ELSE obj[i]]
  ELSE Append(obj, [k |-> key, v |-> val])

\* the printable ASCII characters in code order, from 32 (space) to 126
\* (code 96, the grave accent, cannot be written in a string of the language
\* and is held by a placeholder)
Ascii == <<" ", "!", "\"", "#", "$", "%", "&", "'", "(", ")", "*", "+", ",",
           "-", ".", "/", "0", "1", "2", "3", "4", "5", "6", "7", "8", "9",
           ":", ";", "<", "=", ">", "?", "@",
           "A", "B", "C", "D", "E", "F", "G", "H", "I", "J", "K", "L", "M",
           "N", "O", "P", "Q", "R", "S", "T", "U", "V", "W", "X", "Y", "Z",
           "[", "\\", "]", "^", "_", "(grave)",
           "a", "b", "c", "d", "e", "f", "g", "h", "i", "j", "k", "l", "m",
           "n", "o", "p", "q", "r", "s", "t", "u", "v", "w", "x", "y", "z",
           "{", "|", "}", "~">>

\* string < string: code-unit lexicographic order
RECURSIVE StringLess(_, _)
StringLess(a, b) ==
  LET CharCode(c) == 31 + (CHOOSE i \in 1..Len(Ascii) : Ascii[i] = c)
  IN
  IF b = <<>> THEN FALSE
  ELSE IF a = <<>> THEN TRUE
  ELSE IF Head(a) = Head(b) THEN StringLess(Tail(a), Tail(b))
  ELSE CharCode(Head(a)) < CharCode(Head(b))

\* a < b : two strings compare as strings, anything else as numbers
JSLess(a, b) ==
  LET \* number < number; every comparison with NaN is false
      NumLess(x, y) == x.d # 0 /\ y.d # 0 /\ x.n * y.d < y.n * x.d
  IN
  IF a.t = "string" /\ b.t = "string" THEN StringLess(a.s, b.s)
  ELSE NumLess(ToNumber(a), ToNumber(b))

\* a > b
JSGreater(a, b) == JSLess(b, a)

\* a <= b : false when an operand is NaN, otherwise not (b < a)
JSLessEq(a, b) ==
  IF a.t = "string" /\ b.t = "string" THEN ~StringLess(b.s, a.s)
  ELSE NumLessEq(ToNumber(a), ToNumber(b))

\* a >= b
JSGreaterEq(a, b) == JSLessEq(b, a)

\* ToBoolean
Truthy(v) ==
  CASE v.t = "undefined" -> FALSE
    [] v.t = "null" -> FALSE
    [] v.t = "boolean" -> v.n = 1
    [] v.t = "number" -> v.d # 0 /\ v.n # 0
    [] v.t = "string" -> v.s # <<>>

\* validateData with the length check only
ValidateData_LengthOnly(data) ==
  IF Len(data.items) = 0 THEN "Data array cannot be empty" ELSE ""

(***************************************************************************)
(* DataProcessor.validateData(data, 'array').  An input is                 *)
(* [array |-> is it an array, items |-> its elements]; the outcome is the  *)
(* message of the error thrown, or "" when validation passes.              *)
(***************************************************************************)
ValidateData(data) ==
  IF ~data.array THEN "Data must be an array"
  ELSE IF Len(data.items) = 0 THEN "Data array cannot be empty"
  ELSE ""

Threw(message) == [threw |-> TRUE, error |-> message]

Returned(val) == [threw |-> FALSE, value |-> val]

(***************************************************************************)
(* DataProcessor.evaluateRule                                              *)
(*                                                                         *)
(* A condition is [kind, fn, map]: kind "function" (fn names the           *)
(* predicate), "object" (map is the field -> expectedValue object) or      *)
(* "undefined" (a rule without condition).                                 *)
(***************************************************************************)
\* the predicate functions used as rule conditions: item => true,
\* item => false
ApplyRuleFunction(fn, item) == fn = "always"

\* (variant: the two-character prefixes are tested before '>' and '<')
FieldSpecHolds_TwoCharFirst(actualValue, expectedValue) ==
  LET isString == expectedValue.t = "string"
      ev == expectedValue.s
  IN IF isString /\ StartsWith(ev, <<">", "=">>)
     THEN JSGreaterEq(actualValue, ParseFloat(Slice(ev, 2)))
     ELSE IF isString /\ StartsWith(ev, <<"<", "=">>)
     THEN JSLessEq(actualValue, ParseFloat(Slice(ev, 2)))
     ELSE IF isString /\ StartsWith(ev, <<">">>)
     THEN JSGreater(actualValue, ParseFloat(Slice(ev, 1)))
     ELSE IF isString /\ StartsWith(ev, <<"<">>)
     THEN JSLess(actualValue, ParseFloat(Slice(ev, 1)))
     ELSE IF isString /\ Includes(ev, "*")
     THEN RegExpTest(ReplaceStars(ev), JSToString(actualValue), TRUE)
     ELSE StrictEquals(actualValue, expectedValue)

\* the body of the callback of Object.entries(condition).every(...)
FieldSpecHolds(actualValue, expectedValue) ==
  LET isString == expectedValue.t = "string"
      ev == expectedValue.s
  IN IF isString /\ StartsWith(ev, <<">">>)
     THEN JSGreater(actualValue, ParseFloat(Slice(ev, 1)))
     ELSE IF isString /\ StartsWith(ev, <<"<">>)
     THEN JSLess(actualValue, ParseFloat(Slice(ev, 1)))
     ELSE IF isString /\ StartsWith(ev, <<">", "=">>)
     THEN JSGreaterEq(actualValue, ParseFloat(Slice(ev, 2)))
     ELSE IF isString /\ StartsWith(ev, <<"<", "=">>)
     THEN JSLessEq(actualValue, ParseFloat(Slice(ev, 2)))
     ELSE IF isString /\ Includes(ev, "*")
     THEN RegExpTest(ReplaceStars(ev), JSToString(actualValue), TRUE)
     ELSE StrictEquals(actualValue, expectedValue)

\* (variant: Array.prototype.some in place of every)
EvaluateRule_SomeSpec(item, condition) ==
  IF condition.kind = "function" THEN ApplyRuleFunction(condition.fn, item)
  ELSE IF condition.kind = "object"
  THEN \E i \in 1..Len(condition.map) :
         FieldSpecHolds(Get(item, condition.map[i].k), condition.map[i].v)
  ELSE FALSE

EvaluateRule(item, condition) ==
  IF condition.kind = "function" THEN ApplyRuleFunction(condition.fn, item)
  ELSE IF condition.kind = "object"
  THEN \A i \in 1..Len(condition.map) :
         FieldSpecHolds(Get(item, condition.map[i].k), condition.map[i].v)
  ELSE FALSE

(***************************************************************************)
(* Field names of the tags the operators add                               *)
(***************************************************************************)
K_index == <<"_", "i", "n", "d", "e", "x">>

K_category == <<"_", "c", "a", "t", "e", "g", "o", "r", "y">>

K_confidence == <<"_", "c", "o", "n", "f", "i", "d", "e", "n", "c", "e">>

K_duplicateOf == <<"_", "d", "u", "p", "l", "i", "c", "a", "t", "e", "O", "f">>

K_count == <<"c", "o", "u", "n", "t">>

(***************************************************************************)
(* DataProcessor.categorizeData                                            *)
(*                                                                         *)
(* A rule is [category |-> string, condition |-> condition,                *)
(* confidence |-> value (Undefined when absent)].                          *)
(***************************************************************************)
\* `for (const rule of rules) { if (evaluateRule(...)) { ...; break; } }`:
\* the index of the rule the loop stops at, scanning from j; 0 when the loop
\* runs to its end
\* (variant: the loop without its `break`, the last matching rule wins)
RECURSIVE ScanRules_NoBreak(_, _, _)
ScanRules_NoBreak(item, rules, j) ==
  IF j > Len(rules) THEN 0
  ELSE LET later == ScanRules_NoBreak(item, rules, j + 1)
       IN IF later # 0 THEN later
          ELSE IF EvaluateRule(item, rules[j].condition) THEN j ELSE 0

RECURSIVE ScanRules(_, _, _)
ScanRules(item, rules, j) ==
  IF j > Len(rules) THEN 0
  ELSE IF EvaluateRule(item, rules[j].condition) THEN j
  ELSE ScanRules(item, rules, j + 1)

\* (variant: the counters are not initialised)
SeedCategories_Skipped(categories, rules) == categories

\* rules.forEach(rule => { results.categories[rule.category] = 0; })
RECURSIVE SeedCategories(_, _)
SeedCategories(categories, rules) ==
  IF rules = <<>> THEN categories
  ELSE SeedCategories(Put(categories, Head(rules).category, Num(0)), Tail(rules))

\* one iteration of data.forEach((item, index) => ...), index counted from 0
CategorizeItem(results, item, index, rules) ==
  LET Matched(rule) ==
        [results EXCEPT
           !.categorized =
             Append(@, Put(Put(Put(item, K_index, Num(index)),
                               K_category, Str(rule.category)),
                           K_confidence,
                           IF Truthy(rule.confidence) THEN rule.confidence ELSE Num(1))),
           !.categories = Put(@, rule.category,
                              NumAdd(ToNumber(Get(@, rule.category)), Num(1))),
           !.summary.categorized = @ + 1]
      StoppedAt(j) ==
        IF j # 0 THEN Matched(rules[j])
        ELSE [results EXCEPT
                !.uncategorized = Append(@, Put(item, K_index, Num(index))),
                !.summary.uncategorized = @ + 1]
  IN StoppedAt(ScanRules(item, rules, 1))

RECURSIVE CategorizeLoop(_, _, _, _)
CategorizeLoop(results, items, index, rules) ==
  IF index >= Len(items) THEN results
  ELSE CategorizeLoop(CategorizeItem(results, items[index + 1], index, rules),
                      items, index + 1, rules)

CategorizeData(data, rules) ==
  IF ValidateData(data) # "" THEN Threw(ValidateData(data))
  ELSE Returned(CategorizeLoop(
         [categorized |-> <<>>,
          uncategorized |-> <<>>,
          categories |-> SeedCategories(<<>>, rules),
          summary |-> [total |-> Len(data.items), categorized |-> 0, uncategorized |-> 0]],
         data.items, 0, rules))

(***************************************************************************)
(* DataProcessor.findDuplicates                                            *)
(***************************************************************************)
\* Array.prototype.join(sep): undefined and null elements give ""
RECURSIVE Join(_, _)
Join(values, sep) ==
  IF values = <<>> THEN <<>>
  ELSE LET h == IF Head(values).t \in {"undefined", "null"} THEN <<>>
                ELSE JSToString(Head(values))
       IN IF Len(values) = 1 THEN h ELSE h \o sep \o Join(Tail(values), sep)

\* the quoted form of a string in JSON: '"' and '\' are escaped
RECURSIVE JSONEscape(_)
JSONEscape(str) ==
  IF str = <<>> THEN <<>>
  ELSE (IF Head(str) \in {"\"", "\\"} THEN <<"\\", Head(str)>> ELSE <<Head(str)>>)
         \o JSONEscape(Tail(str))

JSONQuote(str) == <<"\"">> \o JSONEscape(str) \o <<"\"">>

\* the members of JSON.stringify(obj): properties holding undefined are left out
RECURSIVE JSONMembers(_)
JSONMembers(obj) ==
  LET \* JSON.stringify of a scalar property value (NaN is written null)
      JSONValue(v) ==
        CASE v.t = "string" -> JSONQuote(v.s)
          [] v.t = "number" -> (IF v.d = 0 THEN JSToString(Null) ELSE NumberToString(v))
          [] v.t = "boolean" -> JSToString(v)
          [] v.t = "null" -> JSToString(v)
  IN
  IF obj = <<>> THEN <<>>
  ELSE IF Head(obj).v.t = "undefined" THEN JSONMembers(Tail(obj))
  ELSE LET m == JSONQuote(Head(obj).k) \o <<":">> \o JSONValue(Head(obj).v)
           rest == JSONMembers(Tail(obj))
       IN IF rest = <<>> THEN m ELSE m \o <<",">> \o rest

JSONStringify(obj) == <<"{">> \o JSONMembers(obj) \o <<"}">>

\* keyFields is [given |-> BOOLEAN, fields |-> sequence of field names];
\* given = FALSE is the default null
DuplicateKey(item, keyFields) ==
  IF keyFields.given
  THEN Join([i \in 1..Len(keyFields.fields) |-> Get(item, keyFields.fields[i])], <<"|">>)
  ELSE JSONStringify(item)

\* Number.prototype.toFixed(2) of the non-negative number p/q, the tie going
\* up.  (p/q is the exact quotient; the double the code computes differs from
\* it by less than any rounding boundary for the lengths of the model.)
\* (variant: the digits after the second decimal are cut off)
ToFixed2_Truncated(p, q) ==
  LET h == (100 * p) \div q
  IN NatToString(h \div 100) \o <<".">>
       \o <<Digits[((h % 100) \div 10) + 1], Digits[(h % 10) + 1]>>

ToFixed2(p, q) ==
  LET h == (2 * 100 * p + q) \div (2 * q)
  IN NatToString(h \div 100) \o <<".">>
       \o <<Digits[((h % 100) \div 10) + 1], Digits[(h % 10) + 1]>>

\* one iteration of data.forEach((item, index) => ...); seen is the Map, as
\* entries [k |-> key, v |-> index]
\* (variant: the Map entry is moved to the latest record seen with the key)
FindDuplicatesItem_LastSeen(acc, item, index, keyFields) ==
  LET WithKey(key) ==
        IF HasOwn(acc.seen, key)
        THEN [acc EXCEPT !.seen = Put(@, key, Num(index)),
                         !.duplicates =
                Append(@, Put(Put(item, K_index, Num(index)),
                              K_duplicateOf, Get(acc.seen, key)))]
        ELSE [acc EXCEPT !.seen = Put(@, key, Num(index)),
                         !.unique = Append(@, Put(item, K_index, Num(index)))]
  IN WithKey(DuplicateKey(item, keyFields))

FindDuplicatesItem(acc, item, index, keyFields) ==
  LET WithKey(key) ==
        IF HasOwn(acc.seen, key)
        THEN [acc EXCEPT !.duplicates =
                Append(@, Put(Put(item, K_index, Num(index)),
                              K_duplicateOf, Get(acc.seen, key)))]
        ELSE [acc EXCEPT !.seen = Put(@, key, Num(index)),
                         !.unique = Append(@, Put(item, K_index, Num(index)))]
  IN WithKey(DuplicateKey(item, keyFields))

RECURSIVE FindDuplicatesLoop(_, _, _, _)
FindDuplicatesLoop(acc, items, index, keyFields) ==
  IF index >= Len(items) THEN acc
  ELSE FindDuplicatesLoop(FindDuplicatesItem(acc, items[index + 1], index, keyFields),
                          items, index + 1, keyFields)

FindDuplicates(data, keyFields) ==
  IF ValidateData(data) # "" THEN Threw(ValidateData(data))
  ELSE LET Results(acc) ==
             [duplicates |-> acc.duplicates,
              unique |-> acc.unique,
              summary |-> [total |-> Len(data.items),
                           unique |-> Len(acc.unique),
                           duplicates |-> Len(acc.duplicates),
                           duplicateRate |->
                             ToFixed2(Len(acc.duplicates) * 100, Len(data.items)) \o <<"%">>]]
       IN Returned(Results(
            FindDuplicatesLoop([seen |-> <<>>, duplicates |-> <<>>, unique |-> <<>>],
                               data.items, 0, keyFields)))

(***************************************************************************)
(* DataProcessor.filterData                                                *)
(*                                                                         *)
(* criteria is an object field -> condition; a condition is                *)
(* [kind, fn, arr, min, max, pattern, val] with kind "function" (fn names  *)
(* the predicate), "array" (arr), "object" (min, max, pattern, each        *)
(* Undefined when absent) or "scalar" (val, which may be null).            *)
(***************************************************************************)
\* the predicate functions used as filter conditions: value => Boolean(value),
\* value => false
ApplyFilterFunction(fn, value) == fn = "truthy" /\ Truthy(value)

\* Array.prototype.every over the entries of criteria for one item, from
\* entry j on: "true", "false", or "throw" when the entry reached is null
RECURSIVE EveryCriterion(_, _, _)
EveryCriterion(item, criteria, j) ==
  LET \* the body of the callback of Object.entries(criteria).every(...), for a
      \* condition that does not throw
      ConditionHolds(value, condition) ==
        LET \* Array.prototype.includes (SameValueZero: NaN is found)
            ArrayIncludes(arr, x) ==
              \E i \in 1..Len(arr) : arr[i] = x
        IN
        IF condition.kind = "function" THEN ApplyFilterFunction(condition.fn, value)
        ELSE IF condition.kind = "array" THEN ArrayIncludes(condition.arr, value)
        ELSE IF condition.kind = "object"
        THEN IF condition.min.t # "undefined" /\ JSLess(value, condition.min) THEN FALSE
             ELSE IF condition.max.t # "undefined" /\ JSGreater(value, condition.max) THEN FALSE
             ELSE IF Truthy(condition.pattern)
                     /\ ~RegExpTest(condition.pattern.s, JSToString(value), FALSE) THEN FALSE
             ELSE TRUE
        ELSE StrictEquals(value, condition.val)
      \* typeof condition === 'object' also holds of null, whose property read
      \* `condition.min` throws a TypeError
      ConditionThrows(condition) == condition.kind = "scalar" /\ condition.val.t = "null"
  IN
  IF j > Len(criteria) THEN "true"
  ELSE IF ConditionThrows(criteria[j].v) THEN "throw"
  ELSE IF ~ConditionHolds(Get(item, criteria[j].k), criteria[j].v) THEN "false"
  ELSE EveryCriterion(item, criteria, j + 1)

\* data.filter(item => ...): the items kept, in order
\* (variant: the items kept are collected in reverse order)
RECURSIVE FilterLoop_Reversed(_, _)
FilterLoop_Reversed(items, criteria) ==
  IF items = <<>> THEN <<>>
  ELSE FilterLoop_Reversed(Tail(items), criteria)
         \o (IF EveryCriterion(Head(items), criteria, 1) = "true"
             THEN <<Head(items)>> ELSE <<>>)

RECURSIVE FilterLoop(_, _)
FilterLoop(items, criteria) ==
  IF items = <<>> THEN <<>>
  ELSE (IF EveryCriterion(Head(items), criteria, 1) = "true"
        THEN <<Head(items)>> ELSE <<>>) \o FilterLoop(Tail(items), criteria)

FilterData(data, criteria) ==
  IF ValidateData(data) # "" THEN Threw(ValidateData(data))
  ELSE IF \E i \in 1..Len(data.items) : EveryCriterion(data.items[i], criteria, 1) = "throw"
  THEN Threw("TypeError")
  ELSE Returned(FilterLoop(data.items, criteria))

(***************************************************************************)
(* DataProcessor.aggregateData                                             *)
(*                                                                         *)
(* An aggregation spec is [field |-> field name, operation |-> name].      *)
(***************************************************************************)
\* data.forEach(item => { ... groups[groupKey].push(item) }) over `groups = {}`.
\* The property key is the string form of item[groupBy].  When the key is not
\* an own property but names an inherited function, `!groups[groupKey]` is
\* false and `.push` is not a function: a TypeError.
RECURSIVE GroupLoop(_, _, _)
GroupLoop(groups, items, groupBy) ==
  LET \* Names that every object created by `{}` inherits from Object.prototype
      \* with a truthy value (a function).  The prototype has more of them
      \* (hasOwnProperty, isPrototypeOf, __proto__, ...); these are the ones in
      \* the data of the model.
      ObjectPrototypeNames ==
        { <<"v", "a", "l", "u", "e", "O", "f">>,
          <<"t", "o", "S", "t", "r", "i", "n", "g">>,
          <<"c", "o", "n", "s", "t", "r", "u", "c", "t", "o", "r">> }
  IN
  IF items = <<>> THEN [threw |-> FALSE, groups |-> groups]
  ELSE LET groupKey == JSToString(Get(Head(items), groupBy))
       IN IF HasOwn(groups, groupKey)
          THEN GroupLoop(Put(groups, groupKey, Append(Get(groups, groupKey), Head(items))),
                         Tail(items), groupBy)
          ELSE IF groupKey \in ObjectPrototypeNames
          THEN [threw |-> TRUE, groups |-> groups]
          ELSE GroupLoop(Put(groups, groupKey, <<Head(items)>>), Tail(items), groupBy)

\* a property key that is an array index: a canonical numeric string below
\* 2^32 - 1 = 4294967295
IsArrayIndex(key) ==
  /\ key # <<>>
  /\ \A i \in 1..Len(key) : IsDigit(key[i])
  /\ Len(key) = 1 \/ key[1] # "0"
  /\ \/ Len(key) <= 9
     \/ Len(key) = 10
        /\ StringLess(key, <<"4", "2", "9", "4", "9", "6", "7", "2", "9", "5">>)

\* the entries of obj whose keys are array indices, in ascending numeric order
RECURSIVE IndexEntries(_)
IndexEntries(obj) ==
  LET \* numeric order of two canonical numeric strings
      IndexLessEq(a, b) ==
        Len(a) < Len(b) \/ (Len(a) = Len(b) /\ ~StringLess(b, a))
      idx == SelectSeq(obj, LAMBDA e : IsArrayIndex(e.k))
  IN IF idx = <<>> THEN <<>>
     ELSE LET m == CHOOSE i \in 1..Len(idx) :
                     \A j \in 1..Len(idx) : IndexLessEq(idx[i].k, idx[j].k)
          IN <<idx[m]>> \o IndexEntries(SelectSeq(idx, LAMBDA e : e.k # idx[m].k))

\* values.reduce((sum, val) => sum + val, 0)
RECURSIVE ReduceSum(_, _)
ReduceSum(sum, values) ==
  LET \* a + b : string concatenation when an operand is a string, else numeric
      JSAdd(a, b) ==
        IF a.t = "string" \/ b.t = "string"
        THEN Str(JSToString(a) \o JSToString(b))
        ELSE NumAdd(ToNumber(a), ToNumber(b))
  IN
  IF values = <<>> THEN sum ELSE ReduceSum(JSAdd(sum, Head(values)), Tail(values))

\* Math.min(...values) / Math.max(...values) for a non-empty list: the
\* arguments are converted to numbers, NaN if any of them is NaN
MathMin(values) ==
  LET Least(nums) ==
        IF \E i \in 1..Len(nums) : IsNaN(nums[i]) THEN NaN
        ELSE nums[CHOOSE i \in 1..Len(nums) :
                    \A j \in 1..Len(nums) : NumLessEq(nums[i], nums[j])]
  IN Least([i \in 1..Len(values) |-> ToNumber(values[i])])

MathMax(values) ==
  LET Greatest(nums) ==
        IF \E i \in 1..Len(nums) : IsNaN(nums[i]) THEN NaN
        ELSE nums[CHOOSE i \in 1..Len(nums) :
                    \A j \in 1..Len(nums) : NumLessEq(nums[j], nums[i])]
  IN Greatest([i \in 1..Len(values) |-> ToNumber(values[i])])

\* (variant: null and undefined values are not filtered out)
FieldValues_Unfiltered(groupData, field) ==
  [i \in 1..Len(groupData) |-> Get(groupData[i], field)]

\* groupData.map(item => item[field]).filter(val => val !== null && val !== undefined)
FieldValues(groupData, field) ==
  SelectSeq([i \in 1..Len(groupData) |-> Get(groupData[i], field)],
            LAMBDA v : v.t # "null" /\ v.t # "undefined")

\* the switch with a `default` that emits the field with null
ApplyAggregation_DefaultNull(result, groupData, agg) ==
  LET Switch(values) ==
        CASE agg.operation = "sum" ->
               Put(result, agg.field \o <<"_", "s", "u", "m">>, ReduceSum(Num(0), values))
          [] agg.operation = "avg" ->
               Put(result, agg.field \o <<"_", "a", "v", "g">>,
                   IF Len(values) > 0
                   THEN NumDiv(ToNumber(ReduceSum(Num(0), values)), Num(Len(values)))
                   ELSE Num(0))
          [] agg.operation = "min" ->
               Put(result, agg.field \o <<"_", "m", "i", "n">>,
                   IF Len(values) > 0 THEN MathMin(values) ELSE Null)
          [] agg.operation = "max" ->
               Put(result, agg.field \o <<"_", "m", "a", "x">>,
                   IF Len(values) > 0 THEN MathMax(values) ELSE Null)
          [] agg.operation = "count" ->
               Put(result, agg.field \o <<"_", "c", "o", "u", "n", "t">>, Num(Len(values)))
          [] OTHER -> Put(result, agg.field \o <<"_", "m", "e", "d", "i", "a", "n">>, Null)
  IN Switch(FieldValues(groupData, agg.field))

\* the body of aggregations.forEach(agg => { switch (agg.operation) ... })
ApplyAggregation(result, groupData, agg) ==
  LET Switch(values) ==
        CASE agg.operation = "sum" ->
               Put(result, agg.field \o <<"_", "s", "u", "m">>, ReduceSum(Num(0), values))
          [] agg.operation = "avg" ->
               Put(result, agg.field \o <<"_", "a", "v", "g">>,
                   IF Len(values) > 0
                   THEN NumDiv(ToNumber(ReduceSum(Num(0), values)), Num(Len(values)))
                   ELSE Num(0))
          [] agg.operation = "min" ->
               Put(result, agg.field \o <<"_", "m", "i", "n">>,
                   IF Len(values) > 0 THEN MathMin(values) ELSE Null)
          [] agg.operation = "max" ->
               Put(result, agg.field \o <<"_", "m", "a", "x">>,
                   IF Len(values) > 0 THEN MathMax(values) ELSE Null)
          [] agg.operation = "count" ->
               Put(result, agg.field \o <<"_", "c", "o", "u", "n", "t">>, Num(Len(values)))
          [] OTHER -> result
  IN Switch(FieldValues(groupData, agg.field))

RECURSIVE AggregationsLoop(_, _, _)
AggregationsLoop(result, groupData, aggregations) ==
  IF aggregations = <<>> THEN result
  ELSE AggregationsLoop(ApplyAggregation(result, groupData, Head(aggregations)),
                        groupData, Tail(aggregations))

AggregateData(data, groupBy, aggregations) ==
  LET \* Object.entries(obj): array-index keys first in ascending order, then the
      \* other string keys in insertion order
      ObjectEntries(obj) ==
        IndexEntries(obj) \o SelectSeq(obj, LAMBDA e : ~IsArrayIndex(e.k))
      \* the callback of Object.entries(groups).map(([groupKey, groupData]) => ...):
      \* the object literal { [groupBy]: groupKey, count: groupData.length }, then
      \* the aggregations
      GroupResult(entry) ==
        AggregationsLoop(Put(Put(<<>>, groupBy, Str(entry.k)), K_count, Num(Len(entry.v))),
                         entry.v, aggregations)
  IN
  IF ValidateData(data) # "" THEN Threw(ValidateData(data))
  ELSE LET g == GroupLoop(<<>>, data.items, groupBy)
           entries == ObjectEntries(g.groups)
       IN IF g.threw THEN Threw("TypeError")
          ELSE Returned([i \in 1..Len(entries) |->
                           GroupResult(entries[i])])

(***************************************************************************)
(* Client.processData                                                      *)
(*                                                                         *)
(* The value threaded through the operations is an array of records, the   *)
(* same [array |-> TRUE, items |-> ...] the operators take, or the result  *)
(* object of categorizeData / findDuplicates, which is not an array.  An   *)
(* operation is [type, criteria, rules, groupBy, aggregations, keyFields]. *)
(***************************************************************************)
ArrayValue(items) == [array |-> TRUE, items |-> items]

ObjectValue(obj) == [array |-> FALSE, items |-> <<>>, object |-> obj]

\* (variant: categorize hands on its `categorized` array, not its whole
\* result object)
RunOperation_Unwrapped(value, operation) ==
  LET Array(r) == IF r.threw THEN r ELSE Returned(ArrayValue(r.value))
      Object(r) == IF r.threw THEN r ELSE Returned(ObjectValue(r.value))
      Categorized(r) == IF r.threw THEN r ELSE Returned(ArrayValue(r.value.categorized))
  IN CASE operation.type = "filter" ->
            Array(FilterData(value, operation.criteria))
       [] operation.type = "categorize" ->
            Categorized(CategorizeData(value, operation.rules))
       [] operation.type = "aggregate" ->
            Array(AggregateData(value, operation.groupBy, operation.aggregations))
       [] operation.type = "findDuplicates" ->
            Object(FindDuplicates(value, operation.keyFields))
       [] OTHER -> Threw(("Unknown operation type: " \o operation.type))

\* the switch with a `default` that leaves `result` as it is
RunOperation_IgnoresUnknown(value, operation) ==
  LET Array(r) == IF r.threw THEN r ELSE Returned(ArrayValue(r.value))
      Object(r) == IF r.threw THEN r ELSE Returned(ObjectValue(r.value))
  IN CASE operation.type = "filter" ->
            Array(FilterData(value, operation.criteria))
       [] operation.type = "categorize" ->
            Object(CategorizeData(value, operation.rules))
       [] operation.type = "aggregate" ->
            Array(AggregateData(value, operation.groupBy, operation.aggregations))
       [] operation.type = "findDuplicates" ->
            Object(FindDuplicates(value, operation.keyFields))
       [] OTHER -> Returned(value)

\* one iteration of `for (const operation of operations) { switch (operation.type) ... }`:
\* `result = this.data.<operator>(result, ...)`, value being `result` before
\* the iteration
RunOperation(value, operation) ==
  LET Array(r) == IF r.threw THEN r ELSE Returned(ArrayValue(r.value))
      Object(r) == IF r.threw THEN r ELSE Returned(ObjectValue(r.value))
  IN CASE operation.type = "filter" ->
            Array(FilterData(value, operation.criteria))
       [] operation.type = "categorize" ->
            Object(CategorizeData(value, operation.rules))
       [] operation.type = "aggregate" ->
            Array(AggregateData(value, operation.groupBy, operation.aggregations))
       [] operation.type = "findDuplicates" ->
            Object(FindDuplicates(value, operation.keyFields))
       [] OTHER -> Threw(("Unknown operation type: " \o operation.type))

(***************************************************************************)
(* The collaborators of Client.workflow: FileProcessor, HttpClient and the *)
(* Client's readFile / writeFile.  Paths and formats are strings of the    *)
(* model (sequences of characters); error messages are strings of TLA+.    *)
(* What the file system and the network do is given to each operator as an *)
(* argument: whether the path can be read or written, whether the request  *)
(* succeeds, and the content read or received.                             *)
(***************************************************************************)
\* the characters of str as one string of TLA+
RECURSIVE Flatten(_)
Flatten(str) == IF str = <<>> THEN "" ELSE Head(str) \o Flatten(Tail(str))

\* String.prototype.toLowerCase
ToLowerCase(str) == [i \in 1..Len(str) |-> Fold(str[i])]

\* str.split('.').pop(): what follows the last '.', the whole of str when it
\* has none
RECURSIVE LastSegment(_)
LastSegment(str) ==
  IF Includes(str, ".")
  THEN LastSegment(Slice(str, CHOOSE i \in 1..Len(str) : str[i] = "."))
  ELSE str

Auto == <<"a", "u", "t", "o">>

\* `format = 'auto'` as a default parameter, <<>> being an absent argument, then
\* `if (format === 'auto') format = filePath.toLowerCase().split('.').pop()`
FormatOf(filePath, format) ==
  IF format = <<>> \/ format = Auto THEN LastSegment(ToLowerCase(filePath)) ELSE format

\* the message of the error of the file system for a path it cannot open
FsErrorMessage == "ENOENT: no such file or directory"

\* FileProcessor.sanitizePath: the message of the error thrown, "" when the
\* path is accepted (path.normalize leaves the paths of the model as they are)
SanitizePath(filePath) ==
  IF \E i \in 1..(Len(filePath) - 1) : filePath[i] = "." /\ filePath[i + 1] = "."
  THEN "Invalid file path: path traversal not allowed"
  ELSE ""

\* FileProcessor.readJSON (the content of a readable file is valid JSON)
ReadJSON(filePath, readable, content) ==
  IF SanitizePath(filePath) # "" THEN Threw(SanitizePath(filePath))
  ELSE IF ~readable THEN Threw("Failed to read JSON file: " \o FsErrorMessage)
  ELSE Returned(content)

\* FileProcessor.readCSV: a path that cannot be opened makes the read stream
\* emit 'error'; without a listener the error is thrown out of the event loop
\* and neither resolve nor reject is called
ReadCSV(filePath, readable, content) ==
  LET \* an error nobody catches: the promise of the call is never settled
      Uncaught(message) == [threw |-> TRUE, error |-> message, uncaught |-> TRUE]
      \* FileProcessor.readCSV registers its 'data', 'end' and 'error' listeners on
      \* the parser that createReadStream(path).pipe(csv()) returns; pipe does not
      \* forward the 'error' event of the read stream, which has no listener
      ErrorListeners == [reader |-> FALSE, parser |-> TRUE]
  IN
  IF SanitizePath(filePath) # "" THEN Threw(SanitizePath(filePath))
  ELSE IF readable THEN Returned(content)
  ELSE IF ErrorListeners.reader
  THEN Threw("Failed to read CSV file: " \o FsErrorMessage)
  ELSE Uncaught(FsErrorMessage)

\* Client.readFile
ReadFile(filePath, format, readable, content) ==
  LET Switch(fmt) ==
        CASE ToLowerCase(fmt) = <<"j", "s", "o", "n">> -> ReadJSON(filePath, readable, content)
          [] ToLowerCase(fmt) = <<"c", "s", "v">> -> ReadCSV(filePath, readable, content)
          [] OTHER -> Threw("Unsupported file format: " \o Flatten(fmt))
  IN Switch(FormatOf(filePath, format))

\* FileProcessor.writeJSON: what is thrown, or the value written to the file
WriteJSON(filePath, value, writable) ==
  IF SanitizePath(filePath) # "" THEN Threw(SanitizePath(filePath))
  ELSE IF ~writable THEN Threw("Failed to write JSON file: " \o FsErrorMessage)
  ELSE Returned(value)

\* FileProcessor.writeCSV
WriteCSV(filePath, value, writable) ==
  IF SanitizePath(filePath) # "" THEN Threw(SanitizePath(filePath))
  ELSE IF ~value.array \/ Len(value.items) = 0
  THEN Threw("Failed to write CSV file: " \o "CSV data must be a non-empty array")
  ELSE IF ~writable THEN Threw("Failed to write CSV file: " \o FsErrorMessage)
  ELSE Returned(value)

\* Client.writeFile
WriteFile(filePath, value, format, writable) ==
  LET Switch(fmt) ==
        CASE ToLowerCase(fmt) = <<"j", "s", "o", "n">> -> WriteJSON(filePath, value, writable)
          [] ToLowerCase(fmt) = <<"c", "s", "v">> -> WriteCSV(filePath, value, writable)
          [] OTHER -> Threw("Unsupported file format: " \o Flatten(fmt))
  IN Switch(FormatOf(filePath, format))

(***************************************************************************)
(* Client.workflow                                                         *)
(*                                                                         *)
(* A config is [given, source, operations, output]: given = FALSE is a     *)
(* call without a config object; source is [type, path, format];           *)
(* operations is [given, list]; output is [given, type, path, format].     *)
(***************************************************************************)
\* Step 1 of workflow: the value loaded, or what is thrown
LoadSource(source, ok, content) ==
  LET \* this.http.get(url), then `response.data`: the body received, or the error
      \* makeRequest throws once its attempts are used up (3 by default)
      HttpGet ==
        IF ok THEN Returned(content)
        ELSE Threw("Request failed after 3 attempts: " \o "fetch failed")
  IN
  IF source.type = "http" THEN HttpGet
  ELSE IF source.type = "file" THEN ReadFile(source.path, source.format, ok, content)
  ELSE Threw(("Unsupported source type: " \o source.type))

\* `operations && operations.length > 0`
HasOperations(operations) == operations.given /\ Len(operations.list) > 0

\* the envelope with the number of items for every kind of value
SuccessEnvelope_CountsItems(value, operations) ==
  [success |-> TRUE,
   data |-> value,
   summary |-> [recordsProcessed |-> Len(value.items),
                operations |-> IF operations.given THEN Len(operations.list) ELSE 0]]

\* the object returned at the end of the try block
SuccessEnvelope(value, operations) ==
  [success |-> TRUE,
   data |-> value,
   summary |-> [recordsProcessed |-> IF value.array THEN Len(value.items) ELSE 1,
                operations |-> IF operations.given THEN Len(operations.list) ELSE 0]]

\* the object returned by the catch block
FailureEnvelope(message) == [success |-> FALSE, error |-> message, data |-> Null]

(***************************************************************************)
(* Client.workflow as a function of the locals of one invocation: what     *)
(* each stretch of the function between two awaits does to them.  An       *)
(* invocation holds its config, what the file system or the network        *)
(* answers to it (content, ok, writable), the await it is at (stage), its  *)
(* local `data` (current) and what it has resolved to.                     *)
(***************************************************************************)
Invocation(c, content, ok, writable) ==
  [config |-> c, content |-> content, ok |-> ok, writable |-> writable,
   stage |-> "Load", current |-> [array |-> FALSE, items |-> <<>>], result |-> Returned(<<>>)]

\* the loop of processData, which has no await: the value returned, or the
\* error of the first operation that throws
RECURSIVE ProcessDataLoop(_, _)
ProcessDataLoop(value, operations) ==
  IF operations = <<>> THEN Returned(value)
  ELSE LET Rest(r) == IF r.threw THEN r ELSE ProcessDataLoop(r.value, Tail(operations))
       IN Rest(RunOperation(value, Head(operations)))

\* the invocation is at an await
Pending(w) == w.stage \in {"Load", "Emit"}

\* the invocation resumes after its await
WorkflowStep(w) ==
  LET \* the catch block
      Caught(message) ==
        [w EXCEPT !.stage = "Failed", !.result = Returned(FailureEnvelope(message))]
      \* Step 2, and the await of its promise
      AfterTransform(r) ==
        IF r.threw THEN Caught(r.error)
        ELSE [w EXCEPT !.current = r.value, !.stage = "Emit"]
      \* the load has settled: `data = ...`, then Step 2 when there are operations
      AfterLoad(r) ==
        IF ("uncaught" \in DOMAIN r) THEN [w EXCEPT !.stage = "Crashed"]
        ELSE IF r.threw THEN Caught(r.error)
        ELSE IF HasOperations(w.config.operations)
        THEN AfterTransform(ProcessDataLoop(r.value, w.config.operations.list))
        ELSE [w EXCEPT !.current = r.value, !.stage = "Emit"]
      \* Step 3 and the return
      AfterEmit ==
        LET Written(r) ==
              IF r.threw THEN Caught(r.error)
              ELSE [w EXCEPT !.stage = "Success",
                             !.result = Returned(SuccessEnvelope(w.current, w.config.operations))]
        IN IF w.config.output.given /\ w.config.output.type = "file"
           THEN Written(WriteFile(w.config.output.path, w.current, w.config.output.format,
                                  w.writable))
           ELSE [w EXCEPT !.stage = "Success",
                          !.result = IF w.config.output.given /\ w.config.output.type = "return"
                                     THEN Returned(w.current)
                                     ELSE Returned(SuccessEnvelope(w.current,
                                                                   w.config.operations))]
  IN
  CASE w.stage = "Load" -> AfterLoad(LoadSource(w.config.source, w.ok, w.content))
    [] w.stage = "Emit" -> AfterEmit
    [] OTHER -> w

(***************************************************************************)
(* HttpClient.  An options object is an object of the model; the fields of *)
(* an HttpClient are values of the model.                                  *)
(***************************************************************************)
K_timeout == <<"t", "i", "m", "e", "o", "u", "t">>

K_retries == <<"r", "e", "t", "r", "i", "e", "s">>

K_retryDelay == <<"r", "e", "t", "r", "y", "D", "e", "l", "a", "y">>

K_logging == <<"l", "o", "g", "g", "i", "n", "g">>

\* a || b
Or(a, b) == IF Truthy(a) THEN a ELSE b

\* new HttpClient(options)
HttpClient(options) ==
  [timeout |-> Or(Get(options, K_timeout), Num(10000)),
   retries |-> Or(Get(options, K_retries), Num(3)),
   retryDelay |-> Or(Get(options, K_retryDelay), Num(1000)),
   logging |-> Or(Get(options, K_logging), Bool(FALSE))]

\* Math.pow(2, k) for a natural k
RECURSIVE Pow2(_)
Pow2(k) == IF k = 0 THEN 1 ELSE 2 * Pow2(k - 1)

\* the object makeRequest returns; body is what the attempt received
Response(body) == [status |-> 200, data |-> body]

\* the locals of makeRequest: where it is, `attempt`, `lastError` ("" while
\* undefined), the number of calls of fetch and the delays slept so far
Request(at, attempt, lastError, fetches, delays, outcome) ==
  [pc |-> at, attempt |-> attempt, lastError |-> lastError, fetches |-> fetches,
   delays |-> delays, result |-> outcome]

\* makeRequest has not been called
NoRequest == Request("idle", 0, "", 0, <<>>, Returned(<<>>))

\* the loop with the test `attempt <= this.retries + 1`
LoopTest_OneMore(client, r) ==
  IF JSLessEq(Num(r.attempt), Num(client.retries.n + 1)) THEN [r EXCEPT !.pc = "fetch"]
  ELSE [r EXCEPT !.pc = "threw",
                 !.result =
                   IF r.lastError = "" THEN Threw("TypeError")
                   ELSE Threw("Request failed after "
                                \o Flatten(JSToString(client.retries))
                                \o " attempts: " \o r.lastError)]

\* the test `attempt <= this.retries` of the for loop with `attempt` as in r,
\* and the throw after the loop (of a TypeError when lastError is undefined)
LoopTest(client, r) ==
  IF JSLessEq(Num(r.attempt), client.retries) THEN [r EXCEPT !.pc = "fetch"]
  ELSE [r EXCEPT !.pc = "threw",
                 !.result =
                   IF r.lastError = "" THEN Threw("TypeError")
                   ELSE Threw("Request failed after "
                                \o Flatten(JSToString(client.retries))
                                \o " attempts: " \o r.lastError)]

\* `attempt++`, then the test of the loop
NextAttempt(client, r) == LoopTest(client, [r EXCEPT !.attempt = @ + 1])

\* one pass of the try block from the call of fetch: the return, or the
\* catch block up to its await of sleep(delay) or to the end of the iteration
Attempt(client, r, outcome) ==
  LET \* `this.retryDelay * Math.pow(2, attempt - 1)`, in ms
      BackoffDelay(attempt) == client.retryDelay.n * Pow2(attempt - 1)
      \* error.message in the catch block
      FailureMessage ==
        CASE outcome = "status" -> "HTTP 500: Internal Server Error"
          [] outcome = "network" -> "fetch failed"
          [] outcome = "abort" -> "This operation was aborted"
  IN
  IF outcome = "ok"
  THEN [r EXCEPT !.pc = "returned", !.fetches = @ + 1,
                 !.result = Returned(Response(r.fetches + 1))]
  ELSE IF JSLess(Num(r.attempt), client.retries)
  THEN [r EXCEPT !.pc = "sleep", !.fetches = @ + 1,
                 !.lastError = FailureMessage,
                 !.delays = Append(@, BackoffDelay(r.attempt))]
  ELSE NextAttempt(client, [r EXCEPT !.fetches = @ + 1,
                                     !.lastError = FailureMessage])

(***************************************************************************)
(* The Client object: its options and its three modules.                   *)
(***************************************************************************)
\* new FileProcessor(options): the fields the options set
FileProcessor(options) == [logging |-> Or(Get(options, K_logging), Bool(FALSE))]

\* new DataProcessor(options)
DataProcessor(options) == [logging |-> Or(Get(options, K_logging), Bool(FALSE))]

\* { ...a, ...b } : the own properties of b, present with undefined included,
\* are written over those of a
RECURSIVE Spread(_, _)
Spread(a, b) ==
  IF b = <<>> THEN a ELSE Spread(Put(a, Head(b).k, Head(b).v), Tail(b))

\* the three modules built from the options of the client
Modules(options) ==
  [options |-> options,
   http |-> HttpClient(<<[k |-> K_timeout, v |-> Get(options, K_timeout)],
                          [k |-> K_retries, v |-> Get(options, K_retries)],
                          [k |-> K_logging, v |-> Get(options, K_logging)]>>),
   files |-> FileProcessor(<<[k |-> K_logging, v |-> Get(options, K_logging)]>>),
   data |-> DataProcessor(<<[k |-> K_logging, v |-> Get(options, K_logging)]>>)]

\* new Client(options)
NewClient(options) ==
  LET \* the defaults of the constructor of Client
      ClientDefaults ==
        <<[k |-> K_logging, v |-> Bool(FALSE)], [k |-> K_timeout, v |-> Num(10000)],
          [k |-> K_retries, v |-> Num(3)]>>
  IN
  Modules(Spread(ClientDefaults, options))

\* client.configure(options)
Configure(c, options) == Modules(Spread(c.options, options))

\* client.setLogging(enabled)
SetLogging(c, enabled) ==
  [options |-> Put(c.options, K_logging, enabled),
   http |-> [c.http EXCEPT !.logging = enabled],
   files |-> [c.files EXCEPT !.logging = enabled],
   data |-> [c.data EXCEPT !.logging = enabled]]

(***************************************************************************)
(* The inputs of the model                                                 *)
(***************************************************************************)
F_age == <<"a", "g", "e">>

F_dept == <<"d", "e", "p", "t">>

Entry(key, val) == [k |-> key, v |-> val]

\* the records the input arrays are made of
Records ==
  { <<Entry(F_dept, Str(<<"a">>)), Entry(F_age, Num(25))>>,
    <<Entry(F_dept, Num(2)), Entry(F_age, Num(30))>>,
    <<Entry(F_dept, Num(1)), Entry(F_age, Num(40))>>,
    <<Entry(F_dept, Str(<<"1">>)), Entry(F_age, Null)>>,
    <<Entry(F_dept, Str(<<"v", "a", "l", "u", "e", "O", "f">>)), Entry(K_count, Num(7))>>,
    <<Entry(F_age, Str(<<"4", "0">>)), Entry(F_dept, Str(<<"A", "b">>))>> }

\* the sequences over S of length lo..hi
SeqsOf(S, lo, hi) == UNION { [1..n -> S] : n \in lo..hi }

Condition(kind, fn, map) == [kind |-> kind, fn |-> fn, map |-> map]

Rule(category, condition, confidence) ==
  [category |-> category, condition |-> condition, confidence |-> confidence]

Senior == <<"S", "e", "n", "i", "o", "r">>

Junior == <<"J", "u", "n", "i", "o", "r">>

Adult == <<"A", "d", "u", "l", "t">>

RuleSet ==
  { Rule(Senior, Condition("object", "", <<Entry(F_age, Str(<<">", "=", "3", "5">>))>>), Undefined),
    Rule(Junior, Condition("object", "", <<Entry(F_age, Str(<<"<", "3", "0">>))>>), Undefined),
    Rule(Adult, Condition("object", "", <<Entry(F_age, Str(<<">", "2", "0">>))>>), Rat(1, 2)),
    Rule(Junior, Condition("object", "", <<Entry(F_age, Str(<<"<", "=", "3", "0">>))>>), Num(0)),
    Rule(Adult, Condition("object", "", <<Entry(F_dept, Str(<<"a", "*">>))>>), Undefined),
    Rule(Junior, Condition("object", "", <<Entry(F_dept, Str(<<"a">>)), Entry(F_age, Num(25))>>), Undefined),
    Rule(Senior, Condition("object", "", <<Entry(F_dept, Str(<<"a", "*">>)),
                                           Entry(F_age, Str(<<">", "3", "0">>))>>), Undefined),
    Rule(Senior, Condition("function", "always", <<>>), Undefined),
    Rule(Adult, Condition("undefined", "", <<>>), Undefined) }

FilterCondition(kind, fn, arr, min, max, pattern, val) ==
  [kind |-> kind, fn |-> fn, arr |-> arr, min |-> min, max |-> max,
   pattern |-> pattern, val |-> val]

Range(min, max) == FilterCondition("object", "", <<>>, min, max, Undefined, Undefined)

Aggregation(field, operation) == [field |-> field, operation |-> operation]

\* the arrays a pipeline starts from, and a value that is not an array
PipelineRecords ==
  { <<Entry(F_dept, Str(<<"a">>)), Entry(F_age, Num(25))>>,
    <<Entry(F_dept, Num(1)), Entry(F_age, Num(40))>> }

OperationSet ==
  LET Operation(type, c, rs, g, aggs, kf) ==
        [type |-> type, criteria |-> c, rules |-> rs, groupBy |-> g, aggregations |-> aggs,
         keyFields |-> kf]
  IN
  { Operation("filter", <<Entry(F_age, Range(Num(30), Undefined))>>,
              <<>>, <<>>, <<>>, [given |-> FALSE, fields |-> <<>>]),
    Operation("filter", <<Entry(F_age, FilterCondition("function", "never", <<>>,
                                     Undefined, Undefined, Undefined, Undefined))>>,
              <<>>, <<>>, <<>>, [given |-> FALSE, fields |-> <<>>]),
    Operation("categorize", <<>>,
              <<Rule(Adult, Condition("object", "", <<Entry(F_age, Str(<<">", "3", "0">>))>>),
                     Undefined)>>,
              <<>>, <<>>, [given |-> FALSE, fields |-> <<>>]),
    Operation("aggregate", <<>>, <<>>, F_dept, <<Aggregation(F_age, "sum")>>,
              [given |-> FALSE, fields |-> <<>>]),
    Operation("findDuplicates", <<>>, <<>>, <<>>, <<>>, [given |-> TRUE, fields |-> <<F_dept>>]),
    Operation("sort", <<>>, <<>>, <<>>, <<>>, [given |-> FALSE, fields |-> <<>>]) }

Source(type, path, format) == [type |-> type, path |-> path, format |-> format]

SourceSet ==
  { Source("file", <<"i", "n", ".", "j", "s", "o", "n">>, <<"j", "s", "o", "n">>),
    Source("file", <<"i", "n", ".", "C", "S", "V">>, <<>>),
    Source("file", <<"i", "n", ".", "x", "m", "l">>, Auto),
    Source("file", <<".", ".", "/", "i", "n", ".", "j", "s", "o", "n">>, <<>>),
    Source("http", <<>>, <<>>),
    Source("ftp", <<>>, <<>>) }

Output(given, type, path, format) ==
  [given |-> given, type |-> type, path |-> path, format |-> format]

Config(given, source, operations, output) ==
  [given |-> given, source |-> source, operations |-> operations, output |-> output]

\* workflow called without a config object
NoConfig ==
  Config(FALSE, Source("", <<>>, <<>>), [given |-> FALSE, list |-> <<>>], Output(FALSE, "", <<>>, <<>>))

\* the sources of SourceSet that workflow can try to load: the others are
\* rejected before anything is read
LoadableSources ==
  { s \in SourceSet : LoadSource(s, TRUE, ArrayValue(<<>>)) = Returned(ArrayValue(<<>>)) }

\* the configs passed to workflow, and a call without a config; a source that
\* is rejected comes with at most one operation
ConfigSet ==
  LET OutputSet ==
        { Output(FALSE, "", <<>>, <<>>),
          Output(TRUE, "return", <<>>, <<>>),
          Output(TRUE, "file", <<"o", "u", "t", ".", "j", "s", "o", "n">>, <<"J", "S", "O", "N">>),
          Output(TRUE, "file", <<"o", "u", "t", ".", "c", "s", "v">>, <<>>),
          Output(TRUE, "stdout", <<>>, <<>>) }
  IN
  { Config(TRUE, s, [given |-> TRUE, list |-> ops], o) :
      s \in LoadableSources, ops \in SeqsOf(OperationSet, 0, MaxOps), o \in OutputSet }
    \cup { Config(TRUE, s, [given |-> TRUE, list |-> ops], o) :
             s \in SourceSet \ LoadableSources, ops \in SeqsOf(OperationSet, 0, 1),
             o \in OutputSet }
    \cup { Config(TRUE, s, [given |-> FALSE, list |-> <<>>], o) : s \in SourceSet, o \in OutputSet }
    \cup { NoConfig }

\* the most attempts an HttpClient of the model is configured with
MaxRetries == 4

\* the options a Client is constructed or configured with: each of logging,
\* timeout and retries absent or one of a few values, 0 and undefined included
ClientOptionsSet ==
  { ls \o ts \o rs :
      ls \in {<<>>} \cup { <<Entry(K_logging, Bool(b))>> : b \in BOOLEAN },
      ts \in {<<>>} \cup { <<Entry(K_timeout, v)>> : v \in {Num(0), Num(1), Num(5000)} },
      rs \in {<<>>} \cup { <<Entry(K_retries, v)>> : v \in {Num(0), Num(1), Num(5), Undefined} } }

(***************************************************************************)
(* The state machine.  The operators keep no state between data, op, arguments, result, pipeline (the only  *)
(* field of a DataProcessor is `logging`), so a behaviour is one call of    *)
(* one operator on one input: op = "none" is the caller before the call.    *)
(***************************************************************************)
VARIABLES
  data,          \* the value passed as `data`
  op,            \* the operator last called, "none" before the first call
  rules,         \* arguments of the last call ...
  criteria,
  groupBy,
  aggregations,
  keyFields,
  result,        \* what the last call returned or threw
  config,        \* the config of the workflow (of processData: its operations)
  stage,         \* where the workflow is: Load, Transform, Emit, or how it ended
  pc,            \* processData: index of the operation to run next, 0 outside the loop
  current,       \* the local `result` of processData, `data` of workflow
  events,        \* the stages run so far: [stage, index, failed]
  http,          \* the fields of an HttpClient
  request,       \* the locals of its makeRequest
  client,        \* a Client: its options and the fields of its modules
  runs           \* the workflows running on one Client at the same time

vars == <<data, op, rules, criteria, groupBy, aggregations, keyFields, result,
          config, stage, pc, current, events, http, request, client, runs>>

\* the variables of a pipeline
pipeline == <<config, stage, pc, current, events>>

\* the variables of a direct call of an operator
arguments == <<rules, criteria, groupBy, aggregations, keyFields>>

\* the variables the operators and the pipelines leave alone
others == <<http, request, client, runs>>

\* no pipeline is running
Idle ==
  /\ config = NoConfig
  /\ stage = "Idle"
  /\ pc = 0
  /\ current = [array |-> FALSE, items |-> <<>>]
  /\ events = <<>>

\* an HttpClient and a Client with the default options, no request and no
\* workflow
Quiet ==
  /\ http = HttpClient(<<>>)
  /\ request = NoRequest
  /\ client = NewClient(<<>>)
  /\ runs = <<>>

NoKeyFields == [given |-> FALSE, fields |-> <<>>]

Init ==
  LET \* the values passed as `data`: arrays of 0..MaxLen records, and a value that
      \* is not an array
      Inputs ==
        { [array |-> TRUE, items |-> items] : items \in SeqsOf(Records, 0, MaxLen) }
          \cup { [array |-> FALSE, items |-> <<>>] }
  IN
  /\ data \in Inputs
  /\ op = "none"
  /\ rules = <<>>
  /\ criteria = <<>>
  /\ groupBy = <<>>
  /\ aggregations = <<>>
  /\ keyFields = NoKeyFields
  /\ result = Returned(<<>>)
  /\ Idle
  /\ Quiet

\* categorizeData writing _index on the records of its input
CallCategorizeData_InPlace ==
  \E rs \in SeqsOf(RuleSet, 0, MaxRules) :
    /\ op = "none"
    /\ op' = "categorizeData"
    /\ rules' = rs
    /\ result' = CategorizeData(data, rs)
    /\ criteria' = <<>> /\ groupBy' = <<>> /\ aggregations' = <<>>
    /\ keyFields' = NoKeyFields
    /\ data' = [data EXCEPT !.items = [i \in 1..Len(data.items) |->
                                         Put(data.items[i], K_index, Num(i - 1))]]
    /\ UNCHANGED <<pipeline, others>>

CallCategorizeData ==
  \E rs \in SeqsOf(RuleSet, 0, MaxRules) :
    /\ op = "none"
    /\ op' = "categorizeData"
    /\ rules' = rs
    /\ result' = CategorizeData(data, rs)
    /\ criteria' = <<>> /\ groupBy' = <<>> /\ aggregations' = <<>>
    /\ keyFields' = NoKeyFields
    /\ UNCHANGED <<data, pipeline, others>>

CallFindDuplicates ==
  LET KeyFieldsSet ==
        { [given |-> FALSE, fields |-> <<>>],
          [given |-> TRUE, fields |-> <<>>],
          [given |-> TRUE, fields |-> <<F_dept>>],
          [given |-> TRUE, fields |-> <<F_dept, F_age>>] }
  IN
  \E kf \in KeyFieldsSet :
    /\ op = "none"
    /\ op' = "findDuplicates"
    /\ keyFields' = kf
    /\ result' = FindDuplicates(data, kf)
    /\ rules' = <<>> /\ criteria' = <<>> /\ groupBy' = <<>> /\ aggregations' = <<>>
    /\ UNCHANGED <<data, pipeline, others>>

CallFilterData ==
  LET CriteriaSet ==
        LET Scalar(val) == FilterCondition("scalar", "", <<>>, Undefined, Undefined, Undefined, val)
        IN
        { <<>>,
          <<Entry(F_dept, Scalar(Str(<<"a">>)))>>,
          <<Entry(F_age, Scalar(Num(25)))>>,
          <<Entry(F_age, Scalar(Null))>>,
          <<Entry(F_dept, FilterCondition("array", "", <<Str(<<"a">>), Num(1)>>,
                                          Undefined, Undefined, Undefined, Undefined))>>,
          <<Entry(F_age, FilterCondition("function", "truthy", <<>>,
                                         Undefined, Undefined, Undefined, Undefined))>>,
          <<Entry(F_age, FilterCondition("function", "never", <<>>,
                                         Undefined, Undefined, Undefined, Undefined))>>,
          <<Entry(F_age, Range(Num(30), Undefined))>>,
          <<Entry(F_age, Range(Num(25), Num(30)))>>,
          <<Entry(F_dept, FilterCondition("object", "", <<>>, Undefined, Undefined,
                                          Str(<<"a">>), Undefined))>>,
          <<Entry(F_dept, Scalar(Str(<<"a">>))), Entry(F_age, Range(Undefined, Num(30)))>>,
          <<Entry(F_age, Scalar(Num(30))), Entry(F_dept, Scalar(Num(2)))>> }
  IN
  \E c \in CriteriaSet :
    /\ op = "none"
    /\ op' = "filterData"
    /\ criteria' = c
    /\ result' = FilterData(data, c)
    /\ rules' = <<>> /\ groupBy' = <<>> /\ aggregations' = <<>>
    /\ keyFields' = NoKeyFields
    /\ UNCHANGED <<data, pipeline, others>>

CallAggregateData ==
  LET AggregationSet ==
        { Aggregation(F_age, o) : o \in {"sum", "avg", "min", "max", "count", "median"} }
  IN
  \E g \in {F_dept, F_age, K_count}, aggs \in SeqsOf(AggregationSet, 0, MaxAggs) :
    /\ op = "none"
    /\ op' = "aggregateData"
    /\ groupBy' = g
    /\ aggregations' = aggs
    /\ result' = AggregateData(data, g, aggs)
    /\ rules' = <<>> /\ criteria' = <<>>
    /\ keyFields' = NoKeyFields
    /\ UNCHANGED <<data, pipeline, others>>

Next ==
  \/ CallCategorizeData
  \/ CallFindDuplicates
  \/ CallFilterData
  \/ CallAggregateData

Spec == Init /\ [][Next]_vars

(***************************************************************************)
(* The pipelines: Client.processData and Client.workflow.  A behaviour is  *)
(* one call; its steps are the awaits of workflow and the iterations of    *)
(* the loop of processData.  `data` is what processData is called with     *)
(* and, for a workflow, the content the source holds.                      *)
(***************************************************************************)
PipelineInit ==
  LET PipelineInputs ==
        { ArrayValue(items) : items \in SeqsOf(PipelineRecords, 0, MaxRows) }
          \cup { [array |-> FALSE, items |-> <<>>] }
  IN
  /\ data \in PipelineInputs
  /\ op = "none"
  /\ rules = <<>>
  /\ criteria = <<>>
  /\ groupBy = <<>>
  /\ aggregations = <<>>
  /\ keyFields = NoKeyFields
  /\ result = Returned(<<>>)
  /\ Idle
  /\ Quiet

Event(s, index, failed) == [stage |-> s, index |-> index, failed |-> failed]

\* client.processData(data, operations): `let result = data`, before the loop
CallProcessData ==
  \E ops \in SeqsOf(OperationSet, 0, MaxOps) :
    /\ op = "none"
    /\ op' = "processData"
    /\ config' = Config(TRUE, Source("", <<>>, <<>>), [given |-> TRUE, list |-> ops],
                        Output(FALSE, "", <<>>, <<>>))
    /\ current' = data
    /\ pc' = 1
    /\ UNCHANGED <<data, arguments, result, stage, events, others>>

\* client.workflow(config): the destructuring of config, which is outside the
\* try block, throws a TypeError when there is no config and the promise
\* is rejected
CallWorkflow ==
  \E c \in ConfigSet :
    /\ op = "none"
    /\ op' = "workflow"
    /\ config' = c
    /\ IF c.given
       THEN stage' = "Load" /\ UNCHANGED result
       ELSE stage' = "Rejected" /\ result' = Threw("TypeError")
    /\ UNCHANGED <<data, arguments, pc, current, events, others>>

\* the catch block of workflow
Fail(message) ==
  /\ stage' = "Failed"
  /\ result' = Returned(FailureEnvelope(message))
  /\ pc' = 0
  /\ UNCHANGED current

\* Step 1 of workflow, to the start of Step 2 or 3
Load ==
  /\ stage = "Load"
  /\ \E ok \in BOOLEAN :
       LET Loaded(r) ==
             /\ events' = Append(events, Event("Load", 0, r.threw))
             /\ IF ("uncaught" \in DOMAIN r)
                THEN stage' = "Crashed" /\ UNCHANGED <<result, pc, current>>
                ELSE IF r.threw THEN Fail(r.error)
                ELSE /\ current' = r.value
                     /\ UNCHANGED result
                     /\ IF HasOperations(config.operations)
                        THEN stage' = "Transform" /\ pc' = 1
                        ELSE stage' = "Emit" /\ pc' = 0
       IN Loaded(LoadSource(config.source, ok, data))
  /\ UNCHANGED <<data, op, arguments, config, others>>

\* (variant: the loop ends at an empty array, `if (result.length === 0) break`)
ProcessStep_StopsWhenEmpty ==
  /\ pc \in 1..Len(config.operations.list)
  /\ IF current = ArrayValue(<<>>)
     THEN pc' = Len(config.operations.list) + 1 /\ UNCHANGED <<result, stage, current, events>>
     ELSE LET Stepped(r) ==
                /\ events' = Append(events, Event("Transform", pc, r.threw))
                /\ IF ~r.threw
                   THEN current' = r.value /\ pc' = pc + 1 /\ UNCHANGED <<result, stage>>
                   ELSE IF op = "workflow" THEN Fail(r.error)
                   ELSE result' = r /\ pc' = 0 /\ UNCHANGED <<current, stage>>
          IN Stepped(RunOperation(current, config.operations.list[pc]))
  /\ UNCHANGED <<data, op, arguments, config, others>>

\* one iteration of the loop of processData; an error leaves processData and,
\* in a workflow, is caught by the catch block
ProcessStep ==
  /\ pc \in 1..Len(config.operations.list)
  /\ LET Stepped(r) ==
           /\ events' = Append(events, Event("Transform", pc, r.threw))
           /\ IF ~r.threw
              THEN current' = r.value /\ pc' = pc + 1 /\ UNCHANGED <<result, stage>>
              ELSE IF op = "workflow" THEN Fail(r.error)
              ELSE result' = r /\ pc' = 0 /\ UNCHANGED <<current, stage>>
     IN Stepped(RunOperation(current, config.operations.list[pc]))
  /\ UNCHANGED <<data, op, arguments, config, others>>

\* `return result` after the loop of processData; in a workflow
\* `data = await this.processData(data, operations)`
ProcessReturn ==
  /\ pc = Len(config.operations.list) + 1
  /\ pc' = 0
  /\ IF op = "workflow"
     THEN stage' = "Emit" /\ UNCHANGED result
     ELSE result' = Returned(current) /\ UNCHANGED stage
  /\ UNCHANGED <<data, op, arguments, config, current, events, others>>

\* Emit without the early return of output type 'return'
Emit_AlwaysEnvelope ==
  /\ stage = "Emit"
  /\ IF config.output.given /\ config.output.type = "file"
     THEN \E writable \in BOOLEAN :
            LET Written(r) ==
                  /\ events' = Append(events, Event("Emit", 0, r.threw))
                  /\ IF r.threw THEN Fail(r.error)
                     ELSE /\ stage' = "Success"
                          /\ result' = Returned(SuccessEnvelope(current, config.operations))
                          /\ UNCHANGED <<pc, current>>
            IN Written(WriteFile(config.output.path, current, config.output.format, writable))
     ELSE /\ stage' = "Success"
          /\ result' = Returned(SuccessEnvelope(current, config.operations))
          /\ UNCHANGED <<pc, current, events>>
  /\ UNCHANGED <<data, op, arguments, config, others>>

\* Step 3 of workflow and the return of the try block
Emit ==
  /\ stage = "Emit"
  /\ IF config.output.given /\ config.output.type = "file"
     THEN \E writable \in BOOLEAN :
            LET Written(r) ==
                  /\ events' = Append(events, Event("Emit", 0, r.threw))
                  /\ IF r.threw THEN Fail(r.error)
                     ELSE /\ stage' = "Success"
                          /\ result' = Returned(SuccessEnvelope(current, config.operations))
                          /\ UNCHANGED <<pc, current>>
            IN Written(WriteFile(config.output.path, current, config.output.format, writable))
     ELSE /\ stage' = "Success"
          /\ result' = IF config.output.given /\ config.output.type = "return"
                       THEN Returned(current)
                       ELSE Returned(SuccessEnvelope(current, config.operations))
          /\ UNCHANGED <<pc, current, events>>
  /\ UNCHANGED <<data, op, arguments, config, others>>

PipelineNext ==
  \/ CallProcessData
  \/ CallWorkflow
  \/ Load
  \/ ProcessStep
  \/ ProcessReturn
  \/ Emit

PipelineSpec == PipelineInit /\ [][PipelineNext]_vars

(***************************************************************************)
(* HttpClient.makeRequest.  A behaviour is one call on one HttpClient; the *)
(* steps are the stretches of the function between its awaits.            *)
(***************************************************************************)
HttpInit ==
  LET \* the options an HttpClient is constructed with: no retries, 0, 1 ..
      \* MaxRetries; no retryDelay, 0, 100
      HttpOptionsSet ==
        { rs \o ds :
            rs \in {<<>>} \cup { <<Entry(K_retries, Num(n))>> : n \in 0..MaxRetries },
            ds \in {<<>>, <<Entry(K_retryDelay, Num(0))>>, <<Entry(K_retryDelay, Num(100))>>} }
  IN
  /\ data = [array |-> FALSE, items |-> <<>>]
  /\ op = "none"
  /\ rules = <<>>
  /\ criteria = <<>>
  /\ groupBy = <<>>
  /\ aggregations = <<>>
  /\ keyFields = NoKeyFields
  /\ result = Returned(<<>>)
  /\ Idle
  /\ http \in { HttpClient(options) : options \in HttpOptionsSet }
  /\ request = NoRequest
  /\ client = NewClient(<<>>)
  /\ runs = <<>>

\* makeRequest up to the first `await fetch(...)`
CallMakeRequest ==
  /\ request.pc = "idle"
  /\ request' = LoopTest(http, [request EXCEPT !.attempt = 1])
  /\ UNCHANGED <<data, op, arguments, result, pipeline, http, client, runs>>

\* fetch settles: the rest of the try block or the catch block
FetchSettles ==
  /\ request.pc = "fetch"
  /\ \E outcome \in {"ok", "status", "network", "abort"} : request' = Attempt(http, request, outcome)
  /\ UNCHANGED <<data, op, arguments, result, pipeline, http, client, runs>>

\* the timer of sleep(delay) fires: the next iteration, or the throw
SleepEnds ==
  /\ request.pc = "sleep"
  /\ request' = NextAttempt(http, request)
  /\ UNCHANGED <<data, op, arguments, result, pipeline, http, client, runs>>

HttpNext ==
  \/ CallMakeRequest
  \/ FetchSettles
  \/ SleepEnds

\* fetch settles (the timer of the attempt aborts it otherwise) and timers fire
HttpSpec == HttpInit /\ [][HttpNext]_vars /\ WF_vars(HttpNext)


(***************************************************************************)
(* The Client and its settings.  A behaviour is a constructor call and     *)
(* then configure and setLogging data, op, arguments, result, pipeline in any order.                       *)
(***************************************************************************)
ClientInit ==
  /\ data = [array |-> FALSE, items |-> <<>>]
  /\ op = "none"
  /\ rules = <<>>
  /\ criteria = <<>>
  /\ groupBy = <<>>
  /\ aggregations = <<>>
  /\ keyFields = NoKeyFields
  /\ result = Returned(<<>>)
  /\ Idle
  /\ http = HttpClient(<<>>)
  /\ request = NoRequest
  /\ client \in { NewClient(options) : options \in ClientOptionsSet }
  /\ runs = <<>>

CallConfigure ==
  \E options \in ClientOptionsSet :
    /\ client' = Configure(client, options)
    /\ op' = "configure"
    /\ UNCHANGED <<data, arguments, result, pipeline, http, request, runs>>

CallSetLogging ==
  \E enabled \in BOOLEAN :
    /\ client' = SetLogging(client, Bool(enabled))
    /\ op' = "setLogging"
    /\ UNCHANGED <<data, arguments, result, pipeline, http, request, runs>>

ClientNext ==
  \/ CallConfigure
  \/ CallSetLogging

ClientSpec == ClientInit /\ [][ClientNext]_vars

(***************************************************************************)
(* Workflows running at the same time on one Client.  A behaviour is two   *)
(* invocations, both called and at their first await, resumed in any       *)
(* order.                                                                  *)
(***************************************************************************)
ConcurrentInit ==
  LET \* the invocations: a config with the content of its source, whether the
      \* source can be read and whether the output can be written
      InvocationSet ==
        LET \* the configs of the workflows that run at the same time: a JSON or a CSV
            \* file as source, at most one operation, the value returned or written
            ConcurrentConfigs ==
              { c \in ConfigSet :
                  /\ c.given
                  /\ c.source.type = "file" /\ c.source \in LoadableSources
                  /\ Len(c.operations.list) <= 1
                  /\ \A i \in 1..Len(c.operations.list) :
                       c.operations.list[i].type \in {"filter", "categorize"}
                  /\ c.operations.given
                  /\ c.output.given
                  /\ \/ c.output.type = "return"
                     \/ c.output.type = "file" /\ c.output.format # <<>> }
        IN
        { Invocation(c, ArrayValue(items), ok, writable) :
            c \in ConcurrentConfigs,
            items \in { <<r>> : r \in PipelineRecords },
            ok \in BOOLEAN, writable \in BOOLEAN }
  IN
  /\ data = [array |-> FALSE, items |-> <<>>]
  /\ op = "none"
  /\ rules = <<>>
  /\ criteria = <<>>
  /\ groupBy = <<>>
  /\ aggregations = <<>>
  /\ keyFields = NoKeyFields
  /\ result = Returned(<<>>)
  /\ Idle
  /\ http = HttpClient(<<>>)
  /\ request = NoRequest
  /\ client = NewClient(<<>>)
  /\ runs \in { <<a, b>> : a \in InvocationSet, b \in InvocationSet }

\* the await of an invocation settles and the invocation goes on to its next
\* await or to its end
Resume ==
  LET \* the invocations rs after invocation i has resumed.  An error thrown out
      \* of the event loop (an 'error' event without a listener) ends the process
      \* unless the host handles uncaught exceptions (exits = FALSE): the
      \* invocations still at an await are then never resumed
      Resumed(rs, i, exits) ==
        LET After(w) ==
              [j \in 1..Len(rs) |->
                 IF j = i THEN w
                 ELSE IF w.stage = "Crashed" /\ exits /\ Pending(rs[j])
                 THEN [rs[j] EXCEPT !.stage = "Killed"]
                 ELSE rs[j]]
        IN After(WorkflowStep(rs[i]))
  IN
  \E i \in 1..Len(runs), exits \in BOOLEAN :
    /\ Pending(runs[i])
    /\ runs' = Resumed(runs, i, exits)
    /\ UNCHANGED <<data, op, arguments, result, pipeline, http, request, client>>

ConcurrentSpec == ConcurrentInit /\ [][Resume]_vars
\* the last call returned (did not throw)
ReturnedFrom(name) == op = name /\ ~result.threw

(***************************************************************************)
(* Properties                                                              *)
(***************************************************************************)
Items == data.items

\* the positions of seq holding the copy of the input record of index i
PositionsOf(seq, i) == { p \in 1..Len(seq) : Get(seq[p], K_index) = Num(i) }

\* the rules of the call whose condition matches item
MatchingRules(item) ==
  { j \in 1..Len(rules) : EvaluateRule(item, rules[j].condition) }

LowestMatch(item) ==
  CHOOSE j \in MatchingRules(item) : \A k \in MatchingRules(item) : j <= k

\* C1: categorizeData is first-match-wins: a record matched by one or more
\* rules appears exactly once in `categorized` (and not in `uncategorized`)
\* with _category the category of the lowest-index matching rule, and each
\* category counter counts exactly the records so tagged.
C1_FirstMatchWins ==
  ReturnedFrom("categorizeData") =>
    LET res == result.value
    IN /\ \A i \in 0..(Len(Items) - 1) :
            MatchingRules(Items[i + 1]) # {} =>
              /\ Cardinality(PositionsOf(res.categorized, i)) = 1
              /\ PositionsOf(res.uncategorized, i) = {}
              /\ \A p \in PositionsOf(res.categorized, i) :
                   Get(res.categorized[p], K_category)
                     = Str(rules[LowestMatch(Items[i + 1])].category)
       /\ \A j \in 1..Len(rules) :
            Get(res.categories, rules[j].category)
              = Num(Cardinality({ i \in 1..Len(Items) :
                      /\ MatchingRules(Items[i]) # {}
                      /\ rules[LowestMatch(Items[i])].category = rules[j].category }))

\* a record matched by two rules of different categories was categorized
C1_Witness ==
  /\ ReturnedFrom("categorizeData")
  /\ \E i \in 1..Len(Items) :
       /\ \E j, k \in MatchingRules(Items[i]) : rules[j].category # rules[k].category
       /\ PositionsOf(result.value.categorized, i - 1) # {}

\* the rule list of the call is one rule whose condition is one field spec
\* starting with `prefix`
SingleSpecRule(prefix) ==
  /\ Len(rules) = 1
  /\ rules[1].condition.kind = "object"
  /\ Len(rules[1].condition.map) = 1
  /\ rules[1].condition.map[1].v.t = "string"
  /\ StartsWith(rules[1].condition.map[1].v.s, prefix)

\* C2: a field spec '>=N' matches a record exactly when the record's
\* (numeric) field value is >= N, and '<=N' exactly when it is <= N, N being
\* the literal after the two-character prefix.
C2_TwoCharPrefixFirst ==
  /\ ReturnedFrom("categorizeData") /\ SingleSpecRule(<<">", "=">>) =>
       \A i \in 1..Len(Items) :
         LET actual == Get(Items[i], rules[1].condition.map[1].k)
             N == ParseFloat(Slice(rules[1].condition.map[1].v.s, 2))
         IN actual.t = "number" =>
              (PositionsOf(result.value.categorized, i - 1) # {} <=> NumLessEq(N, actual))
  /\ ReturnedFrom("categorizeData") /\ SingleSpecRule(<<"<", "=">>) =>
       \A i \in 1..Len(Items) :
         LET actual == Get(Items[i], rules[1].condition.map[1].k)
             N == ParseFloat(Slice(rules[1].condition.map[1].v.s, 2))
         IN actual.t = "number" =>
              (PositionsOf(result.value.categorized, i - 1) # {} <=> NumLessEq(actual, N))

\* C3: categorizeData returns a partition of a non-empty input: the lengths
\* of categorized and uncategorized add up to the input length, the summary
\* carries these lengths, and every category named in the rules is a key of
\* `categories`, with value 0 when no record was tagged with it.
C3_CategorizePartition ==
  ReturnedFrom("categorizeData") =>
    LET res == result.value
    IN /\ Len(res.categorized) + Len(res.uncategorized) = Len(Items)
       /\ res.summary.total = Len(Items)
       /\ res.summary.categorized = Len(res.categorized)
       /\ res.summary.uncategorized = Len(res.uncategorized)
       /\ \A i \in 0..(Len(Items) - 1) :
            Cardinality(PositionsOf(res.categorized, i))
              + Cardinality(PositionsOf(res.uncategorized, i)) = 1
       /\ \A j \in 1..Len(rules) :
            /\ HasOwn(res.categories, rules[j].category)
            /\ (\A p \in 1..Len(res.categorized) :
                  Get(res.categorized[p], K_category) # Str(rules[j].category))
                 => Get(res.categories, rules[j].category) = Num(0)

\* some records were categorized, some were not, and a declared category
\* tagged no record
C3_Witness ==
  /\ ReturnedFrom("categorizeData")
  /\ result.value.categorized # <<>>
  /\ result.value.uncategorized # <<>>
  /\ \E j \in 1..Len(rules) :
       /\ Get(result.value.categories, rules[j].category) = Num(0)
       /\ \A p \in 1..Len(result.value.categorized) :
            Get(result.value.categorized[p], K_category) # Str(rules[j].category)

\* str is one or more digits, '.', two digits, '%'
IsRateString(str) ==
  /\ Len(str) >= 5
  /\ str[Len(str)] = "%"
  /\ str[Len(str) - 3] = "."
  /\ \A i \in 1..(Len(str) - 1) : i # Len(str) - 3 => IsDigit(str[i])

\* C4: findDuplicates returns a partition of a non-empty input
\* (unique.length + duplicates.length = input length) and duplicateRate is
\* duplicates.length / input.length * 100 written with exactly two decimals
\* (the nearest hundredth) followed by '%'.
C4_DuplicatesPartition ==
  ReturnedFrom("findDuplicates") =>
    LET res == result.value
        rate == res.summary.duplicateRate
        v == StringToNumber(SubSeq(rate, 1, Len(rate) - 1))
    IN /\ Len(res.unique) + Len(res.duplicates) = Len(Items)
       /\ \A i \in 0..(Len(Items) - 1) :
            Cardinality(PositionsOf(res.unique, i))
              + Cardinality(PositionsOf(res.duplicates, i)) = 1
       /\ IsRateString(rate)
       /\ v.d # 0
       /\ 200 * Abs(v.n * Len(Items) - 100 * Len(res.duplicates) * v.d)
            <= v.d * Len(Items)

\* duplicates were found and the rate is not a whole number of hundredths
C4_Witness ==
  /\ ReturnedFrom("findDuplicates")
  /\ result.value.duplicates # <<>>
  /\ (10000 * Len(result.value.duplicates)) % Len(Items) # 0

\* C5: findDuplicates is first-seen-wins in input order: a record whose key
\* no earlier record has goes to `unique`; any other record goes to
\* `duplicates` with _duplicateOf the index of the first record with its key,
\* so _duplicateOf < _index and the record at _duplicateOf is in `unique`.
C5_FirstSeenWins ==
  ReturnedFrom("findDuplicates") =>
    LET res == result.value
        Key(i) == DuplicateKey(Items[i + 1], keyFields)
        Earlier(i) == { j \in 0..(i - 1) : Key(j) = Key(i) }
    IN /\ \A i \in 0..(Len(Items) - 1) :
            IF Earlier(i) = {}
            THEN PositionsOf(res.unique, i) # {}
            ELSE \E p \in PositionsOf(res.duplicates, i) :
                   /\ Get(res.duplicates[p], K_duplicateOf).t = "number"
                   /\ Get(res.duplicates[p], K_duplicateOf).n \in Earlier(i)
                   /\ \A j \in Earlier(i) : Get(res.duplicates[p], K_duplicateOf).n <= j
       /\ \A p \in 1..Len(res.duplicates) :
            LET d == res.duplicates[p]
            IN /\ Get(d, K_duplicateOf).n < Get(d, K_index).n
               /\ PositionsOf(res.unique, Get(d, K_duplicateOf).n) # {}
               /\ Key(Get(d, K_duplicateOf).n) = Key(Get(d, K_index).n)

\* two records were reported as duplicates of the same first record
C5_Witness ==
  /\ ReturnedFrom("findDuplicates")
  /\ \E p, q \in 1..Len(result.value.duplicates) :
       /\ p # q
       /\ Get(result.value.duplicates[p], K_duplicateOf)
            = Get(result.value.duplicates[q], K_duplicateOf)

\* a call of aggregateData on a non-empty array
AggregateCalled == op = "aggregateData" /\ data.array /\ Items # <<>>

GroupKeyOf(item) == JSToString(Get(item, groupBy))

\* the group keys of the input, and the records of a group in input order
GroupKeys == { GroupKeyOf(Items[i]) : i \in 1..Len(Items) }

GroupOf(key) == SelectSeq(Items, LAMBDA item : GroupKeyOf(item) = key)

RECURSIVE SumOfCounts(_)
SumOfCounts(results) ==
  IF results = <<>> THEN 0
  ELSE Get(Head(results), K_count).n + SumOfCounts(Tail(results))

\* C6: for a non-empty input, aggregateData returns as many results as there
\* are distinct values of the groupBy field in the input, and their `count`
\* fields sum to the input length.
C6_GroupCount ==
  AggregateCalled =>
    /\ ~result.threw
    /\ Len(result.value)
         = Cardinality({ Get(Items[i], groupBy) : i \in 1..Len(Items) })
    /\ SumOfCounts(result.value) = Len(Items)

FirstIndexOf(key) ==
  CHOOSE i \in 1..Len(Items) :
    /\ GroupKeyOf(Items[i]) = key
    /\ \A j \in 1..(i - 1) : GroupKeyOf(Items[j]) # key

\* C7: aggregateData lists the groups in the order in which their keys first
\* appear in the input, for every kind of key value, numeric keys included.
C7_FirstAppearanceOrder ==
  ReturnedFrom("aggregateData") /\ groupBy # K_count =>
    \A p, q \in 1..Len(result.value) :
      p < q => FirstIndexOf(Get(result.value[p], groupBy).s)
                 < FirstIndexOf(Get(result.value[q], groupBy).s)

KnownOperations == {"sum", "avg", "min", "max", "count"}

OperationName(operation) ==
  CASE operation = "sum" -> <<"s", "u", "m">>
    [] operation = "avg" -> <<"a", "v", "g">>
    [] operation = "min" -> <<"m", "i", "n">>
    [] operation = "max" -> <<"m", "a", "x">>
    [] operation = "count" -> <<"c", "o", "u", "n", "t">>

\* the field name ${field}_${operation}
DerivedField(agg) == agg.field \o <<"_">> \o OperationName(agg.operation)

\* the values of `field` in a group that are neither null nor undefined
Present(group, field) ==
  SelectSeq([i \in 1..Len(group) |-> Get(group[i], field)],
            LAMBDA v : v # Null /\ v # Undefined)

AllNumbers(values) == \A i \in 1..Len(values) : values[i].t = "number" /\ values[i].d # 0

RECURSIVE Total(_)
Total(values) == IF values = <<>> THEN Num(0) ELSE NumAdd(Head(values), Total(Tail(values)))

\* what the claim says the field of an aggregation holds for a group
Expected(group, agg) ==
  LET values == Present(group, agg.field)
      n == Len(values)
  IN CASE agg.operation = "sum" -> Total(values)
       [] agg.operation = "avg" -> (IF n = 0 THEN Num(0) ELSE NumDiv(Total(values), Num(n)))
       [] agg.operation = "min" ->
            (IF n = 0 THEN Null
             ELSE CHOOSE v \in { values[i] : i \in 1..n } :
                    \A i \in 1..n : NumLessEq(v, values[i]))
       [] agg.operation = "max" ->
            (IF n = 0 THEN Null
             ELSE CHOOSE v \in { values[i] : i \in 1..n } :
                    \A i \in 1..n : NumLessEq(values[i], v))
       [] agg.operation = "count" -> Num(n)

C9_ResultFields ==
  ReturnedFrom("aggregateData") =>
    \A p \in 1..Len(result.value) :
      \E key \in GroupKeys :
        /\ Get(result.value[p], groupBy) = Str(key)
        /\ Get(result.value[p], K_count) = Num(Len(GroupOf(key)))
        /\ \A a \in 1..Len(aggregations) :
             aggregations[a].operation \in KnownOperations
               => HasOwn(result.value[p], DerivedField(aggregations[a]))

\* the criteria of the call use only function, array and scalar conditions
PlainCriteria ==
  \A j \in 1..Len(criteria) : criteria[j].v.kind \in {"function", "array", "scalar"}

\* what the claim says of one field's condition
Satisfied(value, condition) ==
  CASE condition.kind = "function" -> ApplyFilterFunction(condition.fn, value)
    [] condition.kind = "array" ->
         \E i \in 1..Len(condition.arr) : StrictEquals(condition.arr[i], value)
    [] condition.kind = "scalar" -> StrictEquals(value, condition.val)

\* C10: filterData returns exactly the input records, in input order, for
\* which every field of criteria has its condition satisfied (function: called
\* with the field value; array: membership; scalar: strict equality).
C10_FilterKeepsSatisfying ==
  op = "filterData" /\ data.array /\ Items # <<>> /\ PlainCriteria =>
    /\ ~result.threw
    /\ result.value
         = SelectSeq(Items, LAMBDA item :
             \A j \in 1..Len(criteria) :
               Satisfied(Get(item, criteria[j].k), criteria[j].v))

\* C11: for a non-empty array, filterData with the empty criteria {} returns
\* the same records in the same order.
C11_EmptyCriteriaIdentity ==
  op = "filterData" /\ criteria = <<>> /\ data.array /\ Items # <<>> =>
    result = Returned(Items)

\* filterData was called with {} on an array of different records
C11_Witness ==
  /\ ReturnedFrom("filterData")
  /\ criteria = <<>>
  /\ Len(Items) >= 2 /\ Items[1] # Items[2]
  /\ result.value = Items

\* the criteria of the call are {min, max} conditions only
RangeCriteria ==
  /\ criteria # <<>>
  /\ \A j \in 1..Len(criteria) :
       criteria[j].v.kind = "object" /\ criteria[j].v.pattern.t = "undefined"

\* value lies inside the bounds given by condition; no value lies inside
InsideBounds(value, condition) ==
  /\ value.t # "undefined"
  /\ condition.min.t # "undefined" => JSLessEq(condition.min, value)
  /\ condition.max.t # "undefined" => JSLessEq(value, condition.max)

\* C12: under {min, max} conditions filterData keeps exactly the records whose
\* field value v has min <= v for a given min and v <= max for a given max;
\* a record with a value outside the bounds, or with no value for the field,
\* is dropped.
C12_RangeInclusive ==
  op = "filterData" /\ data.array /\ Items # <<>> /\ RangeCriteria =>
    /\ ~result.threw
    /\ result.value
         = SelectSeq(Items, LAMBDA item :
             \A j \in 1..Len(criteria) :
               InsideBounds(Get(item, criteria[j].k), criteria[j].v))

\* the rule list of the call is one rule whose condition is a field -> spec map
SingleMapRule == Len(rules) = 1 /\ rules[1].condition.kind = "object"

\* the entries of the map of the single rule whose spec holds for item
HoldingSpecs(item) ==
  { e \in 1..Len(rules[1].condition.map) :
      FieldSpecHolds(Get(item, rules[1].condition.map[e].k), rules[1].condition.map[e].v) }

\* C13: a field -> spec map condition matches a record iff every field's spec
\* holds for the record; one failing spec makes the record a non-match.
C13_AllSpecsMustHold ==
  ReturnedFrom("categorizeData") /\ SingleMapRule =>
    \A i \in 1..Len(Items) :
      PositionsOf(result.value.categorized, i - 1) # {}
        <=> HoldingSpecs(Items[i]) = 1..Len(rules[1].condition.map)

\* under a map of two specs, a record with both specs holding was categorized
\* and a record with only one of them holding was not
C13_Witness ==
  /\ ReturnedFrom("categorizeData") /\ SingleMapRule
  /\ Len(rules[1].condition.map) = 2
  /\ \E i, j \in 1..Len(Items) :
       /\ Cardinality(HoldingSpecs(Items[i])) = 2
       /\ PositionsOf(result.value.categorized, i - 1) # {}
       /\ Cardinality(HoldingSpecs(Items[j])) = 1
       /\ PositionsOf(result.value.uncategorized, j - 1) # {}

\* the whole of str matches the wildcard pattern, case-insensitively, each
\* '*' standing for any sequence of characters
RECURSIVE WildcardMatch(_, _)
WildcardMatch(pattern, str) ==
  IF pattern = <<>> THEN str = <<>>
  ELSE IF Head(pattern) = "*"
  THEN \E k \in 0..Len(str) : WildcardMatch(Tail(pattern), Slice(str, k))
  ELSE /\ str # <<>>
       /\ Fold(Head(pattern)) = Fold(Head(str))
       /\ WildcardMatch(Tail(pattern), Tail(str))

\* the rule list of the call is one rule whose condition is one wildcard spec
SingleWildcardRule ==
  /\ SingleSpecRule(<<>>)
  /\ Includes(rules[1].condition.map[1].v.s, "*")
  /\ Head(rules[1].condition.map[1].v.s) \notin {">", "<"}

\* C14: a wildcard field spec matches a field value iff the whole value,
\* compared case-insensitively, matches the pattern; a value that only
\* contains a match as a proper substring does not match.
C14_WildcardAnchored ==
  ReturnedFrom("categorizeData") /\ SingleWildcardRule =>
    \A i \in 1..Len(Items) :
      PositionsOf(result.value.categorized, i - 1) # {}
        <=> WildcardMatch(rules[1].condition.map[1].v.s,
                          JSToString(Get(Items[i], rules[1].condition.map[1].k)))

\* the rule list of the call is one rule whose condition is one field spec
\* with a comparison prefix
SingleComparisonRule == SingleSpecRule(<<">">>) \/ SingleSpecRule(<<"<">>)

\* C15: under a prefixed-operator field spec ('>', '<', '>=', '<=' and a
\* numeric literal) a record whose field value is not a number (a string, a
\* boolean, null, or a missing field) never matches.
C15_NonNumberNeverMatches ==
  ReturnedFrom("categorizeData") /\ SingleComparisonRule =>
    \A i \in 1..Len(Items) :
      Get(Items[i], rules[1].condition.map[1].k).t # "number"
        => PositionsOf(result.value.categorized, i - 1) = {}

\* the operations of the pipeline
Ops == config.operations.list

OperatorTypes == {"filter", "categorize", "aggregate", "findDuplicates"}

\* what the operator named by the operation returns (or throws) for value,
\* whole: the array of filterData and aggregateData, the result object of
\* categorizeData and findDuplicates
OperatorReturn(value, operation) ==
  LET Whole(r) ==
        IF r.threw THEN r
        ELSE IF operation.type \in {"filter", "aggregate"} THEN Returned(ArrayValue(r.value))
        ELSE Returned(ObjectValue(r.value))
  IN Whole(CASE operation.type = "filter" -> FilterData(value, operation.criteria)
             [] operation.type = "categorize" -> CategorizeData(value, operation.rules)
             [] operation.type = "aggregate" ->
                  AggregateData(value, operation.groupBy, operation.aggregations)
             [] operation.type = "findDuplicates" ->
                  FindDuplicates(value, operation.keyFields))

\* the outcome of the first k operations applied in list order to the input,
\* each to the whole return value of the one before
RECURSIVE Threaded(_)
Threaded(k) ==
  IF k = 0 THEN Returned(data)
  ELSE LET Next_(prev) == IF prev.threw THEN prev ELSE OperatorReturn(prev.value, Ops[k])
       IN Next_(Threaded(k - 1))

StageFailed == \E i \in 1..Len(events) : events[i].failed

\* the result is the failure envelope with a non-empty message
ResolvedToFailure ==
  /\ ~result.threw
  /\ result.value = FailureEnvelope(result.value.error)
  /\ result.value.error # ""

\* C17: workflow(config) never throws or rejects to its caller: for every
\* config, a failure in Load, Transform or Emit resolves to
\* {success: false, error: <non-empty message>, data: null}.
C17_NeverThrows ==
  op = "workflow" =>
    /\ stage \notin {"Rejected", "Crashed"}
    /\ StageFailed => stage = "Failed" /\ ResolvedToFailure

\* the stages in the order the claim gives them
StageRank(s) == CASE s = "Load" -> 1 [] s = "Transform" -> 2 [] s = "Emit" -> 3

\* the stages run so far are Load, then the operations in list order, then
\* the write, and nothing runs after a failure
StagesInOrder ==
  /\ \A i, j \in 1..Len(events) :
       i < j => /\ StageRank(events[i].stage) <= StageRank(events[j].stage)
                /\ ~events[i].failed
  /\ events # <<>> => events[1].stage = "Load"
  /\ \A i \in 2..Len(events) :
       events[i].stage = "Transform" => events[i].index = i - 1

\* a write is attempted only after Load and every operation have succeeded
WriteAfterAll ==
  \A i \in 1..Len(events) :
    events[i].stage = "Emit" =>
      /\ i = 1 + (IF HasOperations(config.operations) THEN Len(Ops) ELSE 0) + 1
      /\ \A j \in 1..(i - 1) : ~events[j].failed

\* C18: a workflow run goes through Load, then Transform, then Emit in that
\* order and ends in Success or Failed; the write is attempted only after
\* Load and every operation have succeeded, and once a stage has failed no
\* later stage is executed.
C18_StageOrder ==
  op = "workflow" /\ config.given =>
    /\ StagesInOrder
    /\ WriteAfterAll
    /\ stage \in {"Load", "Transform", "Emit", "Success", "Failed"}
    /\ StageFailed <=> stage = "Failed"

\* the call has finished
Finished == stage \in {"Success", "Failed", "Rejected", "Crashed"}

\* the result is one of the two envelopes of workflow
IsEnvelope(value) == "success" \in DOMAIN value

\* C19: when output.type is 'return' and Load and Transform succeed, workflow
\* resolves to the transformed value itself: no {success, data, summary}
\* envelope is built and no file is written.
C19_ReturnsValueItself ==
  /\ op = "workflow" /\ config.given
  /\ config.output.given /\ config.output.type = "return"
  /\ Finished /\ ~StageFailed
  => /\ result = Returned(Threaded(Len(Ops)).value)
     /\ ~IsEnvelope(result.value)
     /\ \A i \in 1..Len(events) : events[i].stage # "Emit"

\* a workflow with output type 'return' resolved to the result object of a
\* categorize operation
C19_Witness ==
  /\ op = "workflow" /\ stage = "Success"
  /\ config.output.given /\ config.output.type = "return"
  /\ Len(Ops) >= 1 /\ Ops[Len(Ops)].type = "categorize"
  /\ Len(events) = 1 + Len(Ops)
  /\ ~result.threw /\ ~result.value.array

\* C20: a successful workflow run whose output type is not 'return' resolves
\* to {success: true, data, summary: {recordsProcessed, operations}}: data is
\* the transformed value, recordsProcessed is its length when it is an array
\* and 1 otherwise, operations is the number of configured operations (0 when
\* none are configured).
C20_SuccessEnvelope ==
  /\ op = "workflow" /\ config.given
  /\ ~(config.output.given /\ config.output.type = "return")
  /\ Finished /\ ~StageFailed
  => /\ ~result.threw
     /\ DOMAIN result.value = {"success", "data", "summary"}
     /\ result.value.success = TRUE
     /\ result.value.data = Threaded(Len(Ops)).value
     /\ DOMAIN result.value.summary = {"recordsProcessed", "operations"}
     /\ result.value.summary.recordsProcessed =
          IF result.value.data.array THEN Len(result.value.data.items) ELSE 1
     /\ result.value.summary.operations =
          IF config.operations.given THEN Len(Ops) ELSE 0

\* a workflow that wrote the result object of its last operation to a file
\* and reported one record
C20_Witness ==
  /\ op = "workflow" /\ stage = "Success"
  /\ config.output.given /\ config.output.type = "file"
  /\ Len(Ops) = 2 /\ Len(events) = 4
  /\ ~result.threw /\ IsEnvelope(result.value)
  /\ ~result.value.data.array
  /\ result.value.summary = [recordsProcessed |-> 1, operations |-> 2]

\* the operation at which the loop of processData stopped, or that it ran last
LastRun == Ops[events[Len(events)].index]

\* C21: unknown configuration is an error, never silently ignored.
\* processData fails with 'Unknown operation type' when it reaches an
\* operation whose type is not filter, categorize, aggregate or
\* findDuplicates, and returns no partial result; a workflow whose
\* source.type is neither 'file' nor 'http' fails with 'Unsupported source
\* type' before any operator runs and before anything is written.
C21_UnknownConfigurationFails ==
  /\ op = "processData" /\ pc = 0 =>
       /\ ~result.threw => \A i \in 1..Len(Ops) : Ops[i].type \in OperatorTypes
       /\ events # <<>> /\ LastRun.type \notin OperatorTypes =>
            result = Threw("Unknown operation type: " \o LastRun.type)
  /\ op = "workflow" /\ Finished /\ Len(events) > 1
       /\ events[Len(events)].stage = "Transform"
       /\ LastRun.type \notin OperatorTypes =>
         result = Returned(FailureEnvelope("Unknown operation type: " \o LastRun.type))
  /\ op = "workflow" /\ config.given /\ stage # "Load"
       /\ config.source.type \notin {"file", "http"} =>
         /\ stage = "Failed"
         /\ result = Returned(FailureEnvelope("Unsupported source type: "
                                               \o config.source.type))
         /\ events = <<Event("Load", 0, TRUE)>>

\* processData reached an operation of type 'sort' after a filter that
\* succeeded, and threw
C21_Witness ==
  /\ op = "processData" /\ pc = 0
  /\ Len(Ops) = 2 /\ Len(events) = 2
  /\ Ops[1].type = "filter" /\ Ops[2].type = "sort"
  /\ ~events[1].failed
  /\ result = Threw("Unknown operation type: sort")

\* one of the four operators of DataProcessor was called directly
OperatorCalled == op \in {"filterData", "categorizeData", "aggregateData", "findDuplicates"}

\* C22: each of filterData, categorizeData, aggregateData and findDuplicates,
\* called with an input that is not an array or is an empty array, throws
\* ('Data must be an array' / 'Data array cannot be empty') before computing
\* anything and returns no partial result; findDuplicates never reaches the
\* duplicateRate division with an input of length 0.
C22_ValidationFirst ==
  OperatorCalled =>
    /\ ~data.array => result = Threw("Data must be an array")
    /\ data.array /\ data.items = <<>> => result = Threw("Data array cannot be empty")
    /\ op = "findDuplicates" /\ ~result.threw =>
         /\ Len(data.items) > 0
         /\ result.value.summary.total = Len(data.items)

\* findDuplicates was called with an empty array and threw
C22_Witness ==
  /\ op = "findDuplicates"
  /\ data.array /\ data.items = <<>>
  /\ keyFields.given
  /\ result = Threw("Data array cannot be empty")

\* the fields the operators add to the records of their results
Tags == {K_index, K_category, K_confidence, K_duplicateOf}

\* rec without the tags
Untagged(rec) == SelectSeq(rec, LAMBDA e : e.k \notin Tags)

\* the tagged records of the result of categorizeData or findDuplicates
Copies ==
  IF op = "categorizeData" THEN result.value.categorized \o result.value.uncategorized
  ELSE IF op = "findDuplicates" THEN result.value.unique \o result.value.duplicates
  ELSE <<>>

\* after a call that returned, no record of the input carries a tag, each
\* tagged record of the result is the input record of its _index plus tags,
\* and the records filterData returns are records of the input
InputIntact ==
  OperatorCalled /\ ~result.threw =>
    /\ \A i \in 1..Len(Items) : Untagged(Items[i]) = Items[i]
    /\ \A p \in 1..Len(Copies) :
         /\ HasOwn(Copies[p], K_index)
         /\ Get(Copies[p], K_index).n + 1 \in 1..Len(Items)
         /\ Untagged(Copies[p]) = Items[Get(Copies[p], K_index).n + 1]
    /\ op \in {"categorizeData", "findDuplicates"} => Len(Copies) = Len(Items)
    /\ op = "filterData" =>
         \A p \in 1..Len(result.value) : \E i \in 1..Len(Items) : result.value[p] = Items[i]

\* C23: no operator alters its input: after any call of filterData,
\* categorizeData, aggregateData or findDuplicates the input sequence has the
\* same length and order and every input record has exactly the fields and
\* values it had before; the tags _index, _category, _confidence and
\* _duplicateOf appear only on the copies in the result.
C23_InputUnchanged == [][data' = data]_vars /\ []InputIntact

\* categorizeData returned a record tagged with a category, and the input
\* record it was copied from carries no tag
C23_Witness ==
  /\ op = "categorizeData" /\ ~result.threw
  /\ Len(Items) >= 2
  /\ Len(result.value.categorized) >= 1
  /\ HasOwn(result.value.categorized[1], K_category)
  /\ ~HasOwn(Items[Get(result.value.categorized[1], K_index).n + 1], K_category)

\* the aggregation specs of the call whose operation aggregateData knows
KnownAggregations == SelectSeq(aggregations, LAMBDA agg : agg.operation \in KnownOperations)

\* the field an aggregation spec of operation 'median' would be given
MedianField(agg) == agg.field \o <<"_", "m", "e", "d", "i", "a", "n">>

\* C24: an aggregation spec whose operation is not one of sum, avg, min, max,
\* count is skipped without error: aggregateData emits no field for it, and
\* the group key, `count` and the fields of the other aggregation specs are
\* the same as if that spec had been absent.
C24_UnknownAggregationSkipped ==
  op = "aggregateData" =>
    /\ result = AggregateData(data, groupBy, KnownAggregations)
    /\ ~result.threw =>
         \A g \in 1..Len(result.value), i \in 1..Len(aggregations) :
           aggregations[i].operation \notin KnownOperations =>
             ~HasOwn(result.value[g], MedianField(aggregations[i]))

\* aggregateData was called with a 'median' spec before a 'sum' spec and
\* returned groups that have the sum
C24_Witness ==
  /\ op = "aggregateData" /\ ~result.threw
  /\ Len(aggregations) = 2
  /\ aggregations[1].operation = "median" /\ aggregations[2].operation = "sum"
  /\ Len(result.value) >= 2
  /\ HasOwn(result.value[1], DerivedField(aggregations[2]))

\* makeRequest has returned or thrown
RequestDone == request.pc \in {"returned", "threw"}

\* the attempt counts of the model, as they appear in the message
AttemptsText(n) == <<"1", "2", "3", "4", "5", "6">>[n]

\* the attempts made so far that failed
FailedAttempts == IF request.pc = "returned" THEN request.fetches - 1 ELSE request.fetches

\* the delays slept so far: one after each failed attempt but the last
\* allowed one, retryDelay after the first and twice the one before after
\* each later one
BackedOff ==
  /\ Len(request.delays) =
       IF FailedAttempts < http.retries.n THEN FailedAttempts ELSE http.retries.n - 1
  /\ \A k \in 1..Len(request.delays) :
       request.delays[k] = IF k = 1 THEN http.retryDelay.n ELSE 2 * request.delays[k - 1]

\* what holds throughout a call of makeRequest
RetriesBounded ==
  request.pc # "idle" =>
    /\ request.fetches <= http.retries.n
    /\ BackedOff
    /\ request.pc = "returned" =>
         /\ request.result = Returned(Response(request.fetches))
         /\ request.fetches = request.attempt
    /\ request.pc = "threw" =>
         /\ request.fetches = http.retries.n
         /\ request.lastError # ""
         /\ request.result =
              Threw("Request failed after " \o AttemptsText(http.retries.n)
                      \o " attempts: " \o request.lastError)

C29_ModulesAgree ==
  /\ client.http.timeout = Get(client.options, K_timeout)
  /\ client.http.retries = Get(client.options, K_retries)
  /\ client.http.logging = Get(client.options, K_logging)
  /\ client.files.logging = Get(client.options, K_logging)
  /\ client.data.logging = Get(client.options, K_logging)

\* invocation w run to its end with no other invocation
RECURSIVE Alone(_)
Alone(w) == IF Pending(w) THEN Alone(WorkflowStep(w)) ELSE w

\* what the caller of an invocation gets: the value its promise resolves to,
\* or nothing when the promise never settles
Resolution(w) ==
  IF w.stage \in {"Success", "Failed"} THEN [settled |-> TRUE, value |-> w.result.value]
  ELSE [settled |-> FALSE]

\* invocation w as it was called
AsCalled(w) == Invocation(w.config, w.content, w.ok, w.writable)

\* C26: concurrent workflow invocations on the same Client are independent:
\* interleaved at their await points in any order, each one resolves to the
\* same result it produces when run alone.
C26_WorkflowsIndependent ==
  \A i \in 1..Len(runs) :
    ~Pending(runs[i]) => Resolution(runs[i]) = Resolution(Alone(AsCalled(runs[i])))

\* a field spec that starts with '>' or '<' and whose remainder after that
\* one character does not parse to a number ('>=35': '=35')
NaNLiteralSpec(v) ==
  /\ v.t = "string"
  /\ v.s # <<>>
  /\ v.s[1] \in {">", "<"}
  /\ IsNaN(ParseFloat(Tail(v.s)))

\* a rule whose condition object has such a field spec
NaNLiteralRule(rule) ==
  /\ rule.condition.kind = "object"
  /\ \E e \in 1..Len(rule.condition.map) : NaNLiteralSpec(rule.condition.map[e].v)

C28_DuplicateOnlyIfKeyFieldsEqual ==
  ReturnedFrom("findDuplicates") /\ keyFields.given =>
    \A p \in 1..Len(result.value.duplicates) :
      \E i \in 1..Len(Items) :
        /\ Num(i - 1) = Get(result.value.duplicates[p], K_duplicateOf)
        /\ \E j \in (i + 1)..Len(Items) :
             /\ Num(j - 1) = Get(result.value.duplicates[p], K_index)
             /\ \A f \in 1..Len(keyFields.fields) :
                  StrictEquals(Get(Items[i], keyFields.fields[f]),
                               Get(Items[j], keyFields.fields[f]))

\* the operation before the one the loop is at was a filter that kept no record
EmptyAfterFilter ==
  /\ op \in {"processData", "workflow"}
  /\ pc \in 2..(Len(Ops) + 1)
  /\ Ops[pc - 1].type = "filter"
  /\ current = ArrayValue(<<>>)

\* the step the pipeline takes from there: the next operation fails, with
\* 'Data array cannot be empty' when it is one of the four operators; after
\* the last operation the empty array is returned
StepFromEmpty ==
  EmptyAfterFilter =>
    IF pc <= Len(Ops)
    THEN /\ events' = Append(events, Event("Transform", pc, TRUE))
         /\ pc' = 0
         /\ IF op = "workflow"
            THEN /\ stage' = "Failed"
                 /\ result' = Returned(FailureEnvelope(result'.value.error))
                 /\ Ops[pc].type \in OperatorTypes =>
                      result'.value.error = "Data array cannot be empty"
            ELSE /\ result'.threw
                 /\ Ops[pc].type \in OperatorTypes =>
                      result' = Threw("Data array cannot be empty")
    ELSE IF op = "workflow"
         THEN stage' = "Emit" /\ current' = ArrayValue(<<>>)
         ELSE result' = Returned(ArrayValue(<<>>))

\* a workflow whose Transform step failed has written nothing, and
\* processData returns an empty array only from a last filter (or from an
\* empty list of operations)
EmptyOnlyFromLastFilter ==
  /\ op = "workflow" /\ (\E i \in 1..Len(events) :
                           events[i].stage = "Transform" /\ events[i].failed) =>
       /\ stage = "Failed"
       /\ \A j \in 1..Len(events) : events[j].stage # "Emit"
  /\ op = "processData" /\ pc = 0 /\ result = Returned(ArrayValue(<<>>)) =>
       Ops = <<>> \/ Ops[Len(Ops)].type = "filter"

\* C30: when a filter operation keeps no record and another operation
\* follows it, the following operator rejects the empty array with 'Data
\* array cannot be empty' and the pipeline fails (workflow resolves to the
\* failure envelope and writes nothing); only when the filter is the last
\* operation is the empty array returned.
C30_EmptyFilterResultFails ==
  [][StepFromEmpty]_vars /\ []EmptyOnlyFromLastFilter

\* processData ran a filter that kept no record and then categorize, which
\* threw
C30_Witness ==
  /\ op = "processData" /\ pc = 0
  /\ Len(Ops) = 2 /\ Len(events) = 2
  /\ Ops[1].type = "filter" /\ Ops[2].type = "categorize"
  /\ ~events[1].failed
  /\ current = ArrayValue(<<>>)
  /\ result = Threw("Data array cannot be empty")

=============================================================================
